---- MODULE Spec2Model ----
(***************************************************************************)
(* Travel planner: the staged conversation graph (extract -> discover ->   *)
(* research -> compose / refine), its routing policy, the confirm-once     *)
(* clarification handshake, the research merge gate and the hotel          *)
(* selection of the refinement agent.                                      *)
(*                                                                         *)
(* Abstractions.  Strings are opaque: every predicate over a user message  *)
(* is tabulated over the finite set Msgs below (each row was obtained by   *)
(* evaluating the source predicate on that utterance).  SHA-1 is taken to  *)
(* be injective, so a hash is modelled by the tuple that is hashed.  The   *)
(* message list is represented by the last human message, the number of    *)
(* human messages, and the kinds of assistant messages appended during     *)
(* the current turn.  A conversation is MaxTurns requests long.  A hotel   *)
(* kept as an alternative carries its name, its selected flag and whether  *)
(* it has a price_per_night; the alternatives nested inside it are not     *)
(* kept.                                                                   *)
(***************************************************************************)
EXTENDS Integers, Sequences, FiniteSets, TLC

\* ------------------------------------------------------------------------
\* Values
\* ------------------------------------------------------------------------
None == "<none>"            \* Python None / an absent key
NoMsg == ""                 \* last_user_message() of a history with no human turn
Blank == "  "               \* a whitespace-only string

Strip(s) ==
    CASE s = Blank -> ""
      [] s = " Paris " -> "Paris"
      [] s = " null " -> "null"
      [] OTHER -> s
OrEmpty(v) == IF v = None THEN "" ELSE v
Truthy(v) == v # None /\ v # ""

\* User utterances of the model.
Msgs == {"hi", "plan a trip", "yes", "looks good", "thanks", "1", "hotel 2",
         "show me cheaper hotels", "affordable hotel please"}

\* Variant: only a literal "yes" counts as a confirmation.
is_user_confirmation_yes_only(m) == m \in {"yes"}

\* router_policy._is_user_confirmation: substring match, negatives first.
is_user_confirmation(m) == m \in {"yes", "looks good"}

\* clarification_agent._is_confirmation: whole-word match, negatives first.
is_confirmation(m) == m \in {"yes", "looks good"}

\* travel_options_agent._is_brief_ack (same in the stays and activities agents).
is_brief_ack(m) == m \in {"looks good", "thanks"}

\* clarification_agent._detect_hotel_refinement.
detect_hotel_refinement(m) == m \in {"show me cheaper hotels"}

\* clarification_agent.extract_travel_info: the greeting test on the text.
is_simple_greeting_text(m) == m \in {"hi"}

\* clarification_agent._looks_like_hint on the destinations of the model.
looks_like_hint(v) == v \in {"somewhere warm", "near Seattle"}

\* clarification_agent._SENTINEL_STRINGS (those the model uses).
SENTINEL_STRINGS == {"", "null", "n/a"}

\* clarification_agent._normalize_value.
normalize_value(v) ==
    IF v = None THEN None
    ELSE IF Strip(v) \in SENTINEL_STRINGS THEN None ELSE Strip(v)

\* Variant: strings are compared as given, not trimmed.
fp_normalize_value_untrimmed(v) ==
    LET lower(s) == IF s = "NULL" THEN "null" ELSE s
    IN  IF v = None THEN None
        ELSE IF v = "" \/ lower(v) = "null" THEN None ELSE v

\* fp._normalize_value.
fp_normalize_value(v) ==
    LET lower(s) == IF s = "NULL" THEN "null" ELSE s
    IN  IF v = None THEN None
        ELSE IF Strip(v) = "" \/ lower(Strip(v)) = "null" THEN None ELSE Strip(v)

\* fp.compute_fp: the normalised subset, in sorted key order.
\* The hashed payload is json.dumps(subset, sort_keys=True): the keys of
\* `keys`, each once, in sorted order, each with its normalised value
\* (data.get(key): None for a missing key).
compute_fp(ex, keys) ==
    LET sorted_names == <<"departure_date", "destination", "destination_hint",
                          "duration_days", "origin", "return_date", "travel_pack",
                          "trip_purpose">>
        in_keys(k) == \E i \in 1..Len(keys) : keys[i] = k
        ks == SelectSeq(sorted_names, in_keys)
        get(k) == IF k \in DOMAIN ex THEN ex[k] ELSE None
    IN  [i \in 1..Len(ks) |-> <<ks[i], fp_normalize_value(get(ks[i]))>>]

SectionKeys(kind) ==
    CASE kind = "travel" ->
             <<"departure_date", "destination", "origin", "return_date", "trip_purpose">>
      [] kind = "stays" -> <<"departure_date", "destination", "return_date", "trip_purpose">>
      [] kind = "activities" -> <<"destination", "trip_purpose">>

\* clarification_agent._hash_required.
hash_required(info) ==
    <<info.origin, info.departure_date, info.return_date,
      info.trip_purpose, info.travel_pack, info.destination>>

NoHash == <<>>

InfoKeys == {"origin", "destination", "destination_hint", "departure_date",
             "return_date", "duration_days", "trip_purpose", "travel_pack"}

EmptyInfo == [k \in InfoKeys |-> None]

\* ------------------------------------------------------------------------
\* State
\* ------------------------------------------------------------------------
VARIABLES
    pc,                   \* position of the turn in the graph
    lastMsg,              \* last human message of state["messages"]
    turns,                \* number of requests served (run_session calls)
    humanCount,           \* number of human messages in state["messages"]
    extracted_info,       \* state["extracted_info"]
    clarification,        \* state["tool_results"]["clarification"]
    discovery,            \* state["tool_results"]["discovery"]
    current_plan,         \* state["current_plan"]: travel, stays, activities
    ui_flags,             \* state["ui_flags"]
    refinement_criteria,  \* state["refinement_criteria"] has "accommodation"
    itinerary_components, \* state["itinerary_components"]
    conversation_context, \* state["conversation_context"]
    api,                  \* the server: stored conversation and requests in flight
    fresh,                \* the current turn began with a new human message
    ran,                  \* nodes executed in the current turn, in order
    out,                  \* kinds of assistant messages appended this turn
    calls,                \* external calls made this turn, in order
    ev                    \* what the last node did (history)

vars == <<pc, turns, lastMsg, humanCount, extracted_info, clarification, discovery,
          current_plan, ui_flags, refinement_criteria, itinerary_components,
          conversation_context, api, fresh, ran, out, calls, ev>>

MaxTurns == 5

NoSection == [present |-> FALSE]
NoEv == [node |-> "none"]

FlagNames == {"confirmed", "travel_confirmed", "hotel_confirmed", "hotel_selected",
              "hotel_selection_pending", "has_selections", "itinerary_presented"}

\* The conversation context of new_state: nothing pending, nothing discussed.
\* A decision is its list of options, each option by the component id it names
\* (0: the option has no component_id).
\* No request is being served.
NoApi == [running |-> 0]

NewContext ==
    [pending_decision |-> [present |-> FALSE],
     current_component_id |-> 0,
     recent_components |-> <<>>,
     recent_is_deque |-> FALSE]

\* core/state.py new_state, through conversation_manager.initiate_conversation.
Init ==
    /\ pc = "idle"
    /\ turns = 0
    /\ lastMsg = NoMsg
    /\ humanCount = 0
    /\ extracted_info = EmptyInfo
    /\ clarification = [status |-> None, confirmed_hash |-> NoHash]
    /\ discovery = [cycle_count |-> 0, resolved |-> FALSE]
    /\ current_plan = [travel |-> NoSection, stays |-> NoSection, activities |-> NoSection]
    /\ ui_flags = [f \in FlagNames |-> FALSE]
    /\ refinement_criteria = FALSE
    /\ itinerary_components = [accommodation |-> [present |-> FALSE],
                               transport |-> 0, days |-> {}]
    /\ fresh = FALSE
    /\ conversation_context = NewContext
    /\ api = NoApi
    /\ ran = <<>>
    /\ out = <<>>
    /\ calls = <<>>
    /\ ev = NoEv

\* ------------------------------------------------------------------------
\* POST /api/chat: handle_user_input, then run_session enters the graph
\* ------------------------------------------------------------------------
StartTurn ==
    /\ turns < MaxTurns
    /\ turns' = turns + 1
    /\ pc' = "extract_info"
    /\ ran' = <<>>
    /\ out' = <<>>
    /\ calls' = <<>>
    /\ ev' = NoEv

\* conversation_manager.handle_user_input with a non-empty text.
UserInput ==
    /\ pc = "idle"
    /\ \E m \in Msgs :
        /\ lastMsg' = m
        /\ humanCount' = humanCount + 1
    /\ fresh' = TRUE
    /\ StartTurn
    /\ UNCHANGED <<api, conversation_context, extracted_info, clarification, discovery, current_plan, ui_flags,
                   refinement_criteria, itinerary_components>>

\* handle_user_input ignores an empty or whitespace-only text; the turn still
\* runs, on the messages already in the history.
EmptyInput ==
    /\ pc = "idle"
    /\ fresh' = FALSE
    /\ StartTurn
    /\ UNCHANGED <<api, conversation_context, lastMsg, humanCount, extracted_info, clarification, discovery,
                   current_plan, ui_flags, refinement_criteria, itinerary_components>>

\* ------------------------------------------------------------------------
\* extract_info node: clarification_agent.extract_travel_info
\* ------------------------------------------------------------------------
\* What the extraction LLM may answer: a parsed JSON object (fields, plus
\* whether its "missing" array names something), or no usable answer.
Parsed(o, d, h, dep, ret, dur, pur, pack, miss) ==
    [origin |-> o, destination |-> d, destination_hint |-> h, departure_date |-> dep,
     return_date |-> ret, duration_days |-> dur, trip_purpose |-> pur,
     travel_pack |-> pack, missing |-> miss]

ParsedOutcomes ==
    { Parsed(None, None, None, None, None, None, None, None, FALSE),
      Parsed("Tracy", "Paris", None, "2026-12-01", "2026-12-05", None, "fun", "family", FALSE),
      Parsed("Tracy", "Rome", None, "2026-12-01", "2026-12-05", None, "fun", "family", FALSE),
      Parsed("Tracy", "somewhere warm", None, "2026-12-01", "2026-12-05", None, "fun", "family", FALSE),
      Parsed("Tracy", "Paris", None, "2026-12-01", "2026-12-05", None, "fun", "family", TRUE) }

\* Lines 259-280: write the parsed fields back into extracted_info.
DestinationIsHint(p) ==
    /\ normalize_value(p.destination) # None
    /\ looks_like_hint(normalize_value(p.destination))

merge_parsed(info, p) ==
    [k \in InfoKeys |->
        IF k = "destination_hint"
        THEN IF DestinationIsHint(p) THEN normalize_value(p.destination)
             ELSE IF p.destination_hint \notin {None, ""} THEN p.destination_hint
             ELSE info[k]
        ELSE IF normalize_value(p[k]) = None THEN None
        ELSE IF k = "destination" /\ DestinationIsHint(p) THEN None
        ELSE normalize_value(p[k])]

\* Lines 284-302: the missing list is non-empty / every required field is set.
RequiredFields == {"origin", "departure_date", "return_date", "trip_purpose", "travel_pack"}

has_missing(info, p) ==
    p.missing \/ \E f \in RequiredFields : ~Truthy(OrEmpty(normalize_value(info[f])))

complete(info) == \A f \in RequiredFields : Truthy(info[f])

\* parsed: the extraction result the step merged, if it merged one.
ExtractReturnParsed(branch, parsed) ==
    /\ pc' = "route_after_extract"
    /\ ran' = Append(ran, "extract_info")
    /\ ev' = [node |-> "extract_info", branch |-> branch, parsed |-> parsed,
              before |-> extracted_info]
    /\ UNCHANGED <<api, conversation_context, turns, lastMsg, humanCount, fresh, discovery, itinerary_components, calls>>

ExtractReturn(branch) == ExtractReturnParsed(branch, [missing |-> FALSE])

\* Lines 92-95: no user text at all.
ExtractNoInput ==
    /\ lastMsg = NoMsg
    /\ ExtractReturn("no_input")
    /\ UNCHANGED <<extracted_info, clarification, current_plan, ui_flags,
                   refinement_criteria, out>>

\* Lines 98-119: a bare greeting as the first message.
ExtractGreeting ==
    /\ lastMsg # NoMsg
    /\ humanCount = 1 /\ is_simple_greeting_text(lastMsg)
    /\ out' = Append(out, "greeting")
    /\ ExtractReturn("greeting")
    /\ UNCHANGED <<extracted_info, clarification, current_plan, ui_flags,
                   refinement_criteria>>

IsGreeting == humanCount = 1 /\ is_simple_greeting_text(lastMsg)

\* Lines 126-145: a hotel refinement request.
ExtractHotelRefinement ==
    /\ lastMsg # NoMsg /\ ~IsGreeting
    /\ detect_hotel_refinement(lastMsg)
    /\ refinement_criteria' = TRUE
    /\ current_plan' = [current_plan EXCEPT !.stays = NoSection]
    /\ clarification' = [clarification EXCEPT !.status = "complete"]
    /\ ExtractReturn("hotel_refinement")
    /\ UNCHANGED <<extracted_info, ui_flags, out>>

\* Lines 150-160: the user answers the confirmation card with a yes.
ExtractConfirmed ==
    /\ lastMsg # NoMsg /\ ~IsGreeting /\ ~detect_hotel_refinement(lastMsg)
    /\ clarification.status = "awaiting_confirmation"
    /\ is_confirmation(lastMsg)
    /\ clarification' = [status |-> "complete",
                         confirmed_hash |-> hash_required(extracted_info)]
    /\ ui_flags' = [ui_flags EXCEPT !.confirmed = TRUE]
    /\ out' = Append(out, "confirmed_ack")
    /\ ExtractReturn("confirmed")
    /\ UNCHANGED <<extracted_info, current_plan, refinement_criteria>>

\* Lines 161-163 then 165-413: (re)parse the essentials with one LLM call.
ReachesLLM ==
    /\ lastMsg # NoMsg /\ ~IsGreeting /\ ~detect_hotel_refinement(lastMsg)
    /\ ~(clarification.status = "awaiting_confirmation" /\ is_confirmation(lastMsg))

\* Lines 405-411: the call or the parse raised.
ExtractLLMFailed ==
    /\ ReachesLLM
    /\ clarification' = [status |-> "incomplete", confirmed_hash |-> NoHash]
    /\ out' = Append(out, "fallback_ask")
    /\ ExtractReturn("llm_failed")
    /\ UNCHANGED <<extracted_info, current_plan, ui_flags, refinement_criteria>>

\* The status the checks of lines 308-312 read: `clar` was bound before line 162.
ExtractParsed ==
    /\ ReachesLLM
    /\ \E p \in ParsedOutcomes :
        LET info == merge_parsed(extracted_info, p)
            h == hash_required(info)
        IN  /\ extracted_info' = info
            /\ IF complete(info) /\ ~has_missing(info, p)
               THEN IF clarification.status = "complete" /\ clarification.confirmed_hash = h
                    THEN /\ ui_flags' = [ui_flags EXCEPT !.confirmed = TRUE]
                         /\ clarification' = clarification
                         /\ out' = out
                         /\ ExtractReturnParsed("already_confirmed", p)
                    ELSE /\ clarification' = [status |-> "awaiting_confirmation",
                                              confirmed_hash |-> h]
                         /\ out' = Append(out, "confirmation_card")
                         /\ ui_flags' = ui_flags
                         /\ ExtractReturnParsed("ask_confirmation", p)
               ELSE /\ clarification' = [status |-> "incomplete", confirmed_hash |-> NoHash]
                    /\ out' = Append(out, "ask_missing")
                    /\ ui_flags' = ui_flags
                    /\ ExtractReturnParsed("ask_missing", p)
    /\ UNCHANGED <<current_plan, refinement_criteria>>

extract_travel_info ==
    /\ pc = "extract_info"
    /\ \/ ExtractNoInput
       \/ ExtractGreeting
       \/ ExtractHotelRefinement
       \/ ExtractConfirmed
       \/ ExtractLLMFailed
       \/ ExtractParsed

\* ------------------------------------------------------------------------
\* Routing policy: router_policy.py
\* ------------------------------------------------------------------------
has(kind) == current_plan[kind].present

\* Variant: the stage does not wait for the stays section.
determine_workflow_stage_without_stays ==
    IF ~has("travel") THEN "need_travel"
    ELSE IF ~ui_flags.travel_confirmed THEN "awaiting_travel_confirm"
    ELSE IF ~ui_flags.hotel_confirmed THEN "awaiting_hotel_confirm"
    ELSE IF ~has("activities") THEN "need_activities"
    ELSE "complete"

\* _determine_workflow_stage.
determine_workflow_stage ==
    IF ~has("travel") THEN "need_travel"
    ELSE IF ~ui_flags.travel_confirmed THEN "awaiting_travel_confirm"
    ELSE IF ~has("stays") THEN "need_stays"
    ELSE IF ~ui_flags.hotel_confirmed THEN "awaiting_hotel_confirm"
    ELSE IF ~has("activities") THEN "need_activities"
    ELSE "complete"

user_confirmed == lastMsg # NoMsg /\ is_user_confirmation(lastMsg)

destination_blank == Strip(OrEmpty(extracted_info.destination)) = ""

\* The route route_after_extract returns.
route_decision ==
    IF clarification.status # "complete" THEN "ask_more"
    ELSE IF destination_blank THEN "discover"
    ELSE LET stage == determine_workflow_stage
         IN CASE stage = "need_travel" -> "research_travel"
              [] stage = "awaiting_travel_confirm" ->
                    IF refinement_criteria \/ user_confirmed
                    THEN "research_stays" ELSE "research_travel"
              [] stage = "need_stays" -> "research_stays"
              [] stage = "awaiting_hotel_confirm" ->
                    IF lastMsg \in {"1", "2", "3"} THEN "refine"
                    ELSE IF user_confirmed THEN "research_activities"
                    ELSE "research_stays"
              [] stage = "need_activities" -> "research_activities"
              [] OTHER -> "refine"

RouteStage ==
    IF clarification.status = "complete" /\ ~destination_blank
    THEN determine_workflow_stage ELSE "none"

\* Variant: the refine edge leads back to the entry point.
NodeOf_refine_reenters(route) ==
    CASE route = "ask_more" -> "end"
      [] route = "discover" -> "discover_destination"
      [] route = "refine" -> "extract_info"
      [] OTHER -> route

\* The node a route leads to (build_graph, the edges out of extract_info).
NodeOf(route) ==
    CASE route = "ask_more" -> "end"
      [] route = "discover" -> "discover_destination"
      [] route = "refine" -> "refine_itinerary"
      [] OTHER -> route

\* route_after_extract, with the state it writes on the way.
route_after_extract ==
    /\ pc = "route_after_extract"
    /\ LET route == route_decision
           stage == RouteStage
       IN  /\ pc' = NodeOf(route)
           /\ ev' = [node |-> "route_after_extract", route |-> route, stage |-> stage]
           /\ ui_flags' =
                IF stage = "awaiting_travel_confirm" /\ route = "research_stays"
                THEN [ui_flags EXCEPT !.travel_confirmed = TRUE]
                ELSE IF stage = "awaiting_hotel_confirm" /\ route = "refine"
                THEN [ui_flags EXCEPT !.hotel_selection_pending = TRUE]
                ELSE IF stage = "awaiting_hotel_confirm" /\ route = "research_activities"
                THEN [ui_flags EXCEPT !.hotel_confirmed = TRUE]
                ELSE ui_flags
           /\ current_plan' =
                IF stage = "awaiting_travel_confirm" /\ route = "research_travel"
                THEN [current_plan EXCEPT !.travel = NoSection]
                ELSE current_plan
    /\ UNCHANGED <<api, conversation_context, turns, lastMsg, humanCount, fresh, extracted_info, clarification, discovery,
                   refinement_criteria, itinerary_components, ran, out, calls>>

\* ------------------------------------------------------------------------
\* discover_destination node: destination_discovery_agent.suggest_destinations
\* ------------------------------------------------------------------------
\* Variant: one more discovery cycle is allowed.
MAX_CYCLES_plus_one == 3 + 1

\* destination_discovery_agent.MAX_CYCLES.
MAX_CYCLES == 3

\* What the intent LLM may answer (action, destination).
IntentOutcomes ==
    { [action |-> "destination_confirmed", destination |-> "Paris"],
      [action |-> "destination_confirmed", destination |-> Blank],
      [action |-> "destination_confirmed", destination |-> None],
      [action |-> "needs_options", destination |-> None],
      [action |-> "wants_more", destination |-> None],
      [action |-> "unclear", destination |-> None] }

DiscoverReturn(branch) ==
    /\ pc' = "route_after_discover"
    /\ ran' = Append(ran, "discover_destination")
    /\ ev' = [node |-> "discover_destination", branch |-> branch,
              cycle_before |-> discovery.cycle_count,
              had_destination |-> Truthy(extracted_info.destination)]
    /\ UNCHANGED <<api, conversation_context, turns, lastMsg, humanCount, fresh, clarification, current_plan, ui_flags,
                   refinement_criteria, itinerary_components>>

\* Lines 355-359.
DiscoverAlreadySet ==
    /\ Truthy(extracted_info.destination)
    /\ discovery' = [discovery EXCEPT !.resolved = TRUE]
    /\ DiscoverReturn("already_set")
    /\ UNCHANGED <<extracted_info, out, calls>>

\* Lines 361-372.
DiscoverMaxCycles ==
    /\ ~Truthy(extracted_info.destination)
    /\ discovery.cycle_count >= MAX_CYCLES
    /\ out' = Append(out, "be_more_specific")
    /\ DiscoverReturn("max_cycles")
    /\ UNCHANGED <<extracted_info, discovery, calls>>

\* Lines 374-443.
DiscoverInterpret ==
    /\ ~Truthy(extracted_info.destination)
    /\ discovery.cycle_count < MAX_CYCLES
    /\ \E intent \in IntentOutcomes, found \in BOOLEAN :
        IF intent.action = "destination_confirmed" /\ Truthy(intent.destination)
        THEN /\ extracted_info' = [extracted_info EXCEPT !.destination = intent.destination]
             /\ discovery' = [discovery EXCEPT !.resolved = TRUE]
             /\ out' = Append(out, "excellent_choice")
             /\ calls' = Append(calls, "intent")
             /\ DiscoverReturn("confirmed")
        ELSE IF intent.action \in {"needs_options", "wants_more"}
        THEN /\ extracted_info' = extracted_info
             /\ discovery' = [cycle_count |-> discovery.cycle_count + 1,
                              resolved |-> IF found THEN FALSE ELSE discovery.resolved]
             /\ out' = Append(out, IF found THEN "destination_options" ELSE "search_fallback")
             /\ calls' = calls \o <<"intent", "search">>
             /\ DiscoverReturn(IF found THEN "options" ELSE "no_results")
        ELSE /\ extracted_info' = extracted_info
             /\ discovery' = discovery
             /\ out' = Append(out, "unclear_ask")
             /\ calls' = Append(calls, "intent")
             /\ DiscoverReturn("unclear")

suggest_destinations ==
    /\ pc = "discover_destination"
    /\ \/ DiscoverAlreadySet
       \/ DiscoverMaxCycles
       \/ DiscoverInterpret

\* orchestrator.route_after_discover.
ready_for_plan ==
    /\ Truthy(extracted_info.destination)
    /\ \/ Truthy(extracted_info.departure_date) /\ Truthy(extracted_info.return_date)
       \/ Truthy(extracted_info.duration_days)

route_after_discover ==
    /\ pc = "route_after_discover"
    /\ pc' = IF ready_for_plan THEN "research_travel" ELSE "end"
    /\ ev' = [node |-> "route_after_discover",
              route |-> IF ready_for_plan THEN "generate_plan" ELSE "end"]
    /\ UNCHANGED <<api, conversation_context, turns, lastMsg, humanCount, fresh, extracted_info, clarification, discovery,
                   current_plan, ui_flags, refinement_criteria, itinerary_components,
                   ran, out, calls>>

\* ------------------------------------------------------------------------
\* Research agents and the merge gate: orchestrator.py, agents/*_agent.py
\* ------------------------------------------------------------------------
NoFp == <<>>

\* A research payload: the new structure (recommendations, sources) and the
\* legacy one (summary, results); sources and results by their length.
Payload(rec, src, sum, res) ==
    [recommendations |-> rec, sources |-> src, summary |-> sum, results |-> res]

NonBlankText(v) == Truthy(Strip(OrEmpty(v)))

\* Variant: the legacy structure (summary, results) is not looked at.
should_merge_new_structure_only(payload) ==
    NonBlankText(payload.recommendations) \/ payload.sources > 0

\* orchestrator._should_merge.
should_merge(payload) ==
    \/ NonBlankText(payload.recommendations) \/ payload.sources > 0
    \/ NonBlankText(payload.summary) \/ payload.results > 0

\* plan[kind] after the runner stored the payload with its fingerprint.
Stored(payload, fp) ==
    [present |-> TRUE, recommendations |-> payload.recommendations,
     sources |-> payload.sources, summary |-> payload.summary,
     results |-> payload.results, fp |-> fp, by_composer |-> FALSE]

\* The merge step of the staged runners (lines 103-117, 152-165, 199-209).
merge_patch(plan, kind, payload, ex) ==
    IF should_merge(payload)
    THEN [plan EXCEPT ![kind] = Stored(payload, compute_fp(ex, SectionKeys(kind)))]
    ELSE plan

\* The inputs each agent needs before it researches.
inputs_complete(kind, ex) ==
    CASE kind = "travel" ->
            /\ NonBlankText(ex.origin) /\ NonBlankText(ex.destination)
            /\ \/ NonBlankText(ex.departure_date) \/ NonBlankText(ex.return_date)
               \/ Truthy(ex.duration_days)
      [] kind = "stays" ->
            /\ NonBlankText(ex.destination)
            /\ NonBlankText(ex.departure_date) /\ NonBlankText(ex.return_date)
      [] kind = "activities" -> NonBlankText(ex.destination)

\* What an agent that does research may hand back: the payload and whether
\* the ReAct agent (the external call) was invoked to obtain it.
AgentOutcomes ==
    { [payload |-> Payload("recommendations", 1, None, 0), called |-> TRUE],
      [payload |-> Payload("failure notice", 0, None, 0), called |-> TRUE],
      [payload |-> Payload("failure notice", 0, None, 0), called |-> FALSE] }

returns_none(kind) == is_brief_ack(lastMsg) \/ ~inputs_complete(kind, extracted_info)

\* The part every staged runner shares: merge the agent's patch (if any) into
\* current_plan and hand over to compose_response.
merge_and_continue(kind, has_patch, payload, called) ==
    /\ current_plan' = IF has_patch
                       THEN merge_patch(current_plan, kind, payload, extracted_info)
                       ELSE current_plan
    /\ calls' = IF called THEN Append(calls, kind) ELSE calls
    /\ ev' = [node |-> "research_" \o kind, kind |-> kind, patch |-> has_patch,
              payload |-> payload, called |-> called,
              merged |-> has_patch /\ should_merge(payload),
              before |-> current_plan[kind]]
    /\ pc' = "compose_response"
    /\ ran' = Append(ran, "research_" \o kind)
    /\ UNCHANGED <<api, conversation_context, turns, lastMsg, humanCount, fresh, extracted_info, clarification, discovery,
                   ui_flags, refinement_criteria, itinerary_components, out>>

\* One staged runner: find_<kind>, then the merge gate.
run_research(kind) ==
    IF returns_none(kind)
    THEN merge_and_continue(kind, FALSE, Payload(None, 0, None, 0), FALSE)
    ELSE \E o \in AgentOutcomes : merge_and_continue(kind, TRUE, o.payload, o.called)

run_travel_research ==
    /\ pc = "research_travel"
    /\ run_research("travel")

run_stays_research ==
    /\ pc = "research_stays"
    /\ run_research("stays")

run_activities_research ==
    /\ pc = "research_activities"
    /\ run_research("activities")

\* ------------------------------------------------------------------------
\* compose_response node: plan_composer_agent.compose_itinerary
\* ------------------------------------------------------------------------
MaxTransport == 1
MaxDays == 1

\* A hotel kept in an alternatives list; priced: it has a price_per_night.
Hotel(n, sel, priced) == [name |-> n, selected |-> sel, priced |-> priced]

\* The (exactly three) accommodation_options the LLM may return, in order.
HotelLists == { <<"A", "B", "C">> }

hotel_selected == itinerary_components.accommodation.present
                  /\ itinerary_components.accommodation.selected


\* Lines 570-590: move the selected hotel to the front when it is listed.
reorder(hs, sel, n) ==
    IF sel /\ \E i \in 2..Len(hs) : hs[i] = n
    THEN <<n>> \o SelectSeq(hs, LAMBDA x : x # n)
    ELSE hs

\* Variant: the days of the generation step are kept as they are.
forced_days_kept(sel, nd) == nd

\* Lines 561-567: without a selected hotel the days are forced to empty.
forced_days(sel, nd) == IF sel THEN nd ELSE 0

\* _register_structured_components: the last transport option stays, the first
\* hotel becomes the accommodation (never selected), every day gets its slots.
register_structured_components(comps, hs, nt, nd) ==
    [accommodation |-> [present |-> TRUE, name |-> hs[1], selected |-> FALSE,
                        priced |-> TRUE,
                        alternatives |-> <<Hotel(hs[2], FALSE, TRUE),
                                           Hotel(hs[3], FALSE, TRUE)>>],
     transport |-> nt,
     days |-> comps.days \cup 1..nd]

GeneratedSection ==
    [present |-> TRUE, recommendations |-> "generated", sources |-> 0,
     summary |-> None, results |-> 0, fp |-> NoFp, by_composer |-> TRUE]

\* Variant: one more retry is allowed.
MAX_RETRIES_plus_one == 2 + 1

\* MAX_RETRIES.
MAX_RETRIES == 2

\* _generate_with_retries, from attempt (0-based) on: the number of attempts
\* made and how the call ended (the last outcome is raised when none is ok).
RECURSIVE generate_with_retries(_, _)
generate_with_retries(outcomes, attempt) ==
    IF outcomes[attempt + 1] = "ok" \/ attempt >= MAX_RETRIES
    THEN [attempts |-> attempt + 1, result |-> outcomes[attempt + 1]]
    ELSE generate_with_retries(outcomes, attempt + 1)

\* Every way the attempts of one call may go: each attempt gives a validated
\* itinerary, a schema validation error, or any other exception.
Generations ==
    { generate_with_retries(o, 0) :
        o \in [1..(MAX_RETRIES + 1) -> {"ok", "validation_error", "error"}] }

\* proposed: the days the generation step returned; emitted: the days of the
\* itinerary that is registered and rendered; gen: how the generation went.
ComposeReturnDays(branch, proposed, emitted, gen) ==
    /\ pc' = "end"
    /\ ran' = Append(ran, "compose_response")
    /\ ev' = [node |-> "compose_response", branch |-> branch,
              was_selected |-> hotel_selected,
              proposed_days |-> proposed, emitted_days |-> emitted,
              attempts |-> gen.attempts, result |-> gen.result,
              before |-> itinerary_components]
    /\ UNCHANGED <<api, conversation_context, turns, lastMsg, humanCount, fresh, extracted_info, clarification, discovery,
                   refinement_criteria, calls>>

ComposeReturn(branch) ==
    ComposeReturnDays(branch, 0, 0, [attempts |-> 0, result |-> "none"])

\* Lines 462-464: nothing researched yet.
ComposeSkip ==
    /\ ~has("travel") /\ ~has("stays") /\ ~has("activities")
    /\ ComposeReturn("skip")
    /\ UNCHANGED <<current_plan, ui_flags, itinerary_components, out>>

\* Lines 484-512: travel only.
ComposeTravelOnly ==
    /\ has("travel") /\ ~has("stays") /\ ~has("activities")
    /\ out' = Append(out, IF ui_flags.travel_confirmed
                          THEN "accommodation_trouble" ELSE "travel_options")
    /\ ComposeReturn("travel_only")
    /\ UNCHANGED <<current_plan, ui_flags, itinerary_components>>

ComposeGenerates == has("stays") \/ has("activities")

travel_confirmed_by_composer ==
    IF hotel_selected THEN ui_flags ELSE [ui_flags EXCEPT !.travel_confirmed = TRUE]

\* Lines 556-630: every attempt of _generate_with_retries failed.
ComposeFailed ==
    /\ ComposeGenerates
    /\ ui_flags' = travel_confirmed_by_composer
    /\ \E gen \in Generations :
        /\ gen.result # "ok"
        /\ out' = Append(out, IF gen.result = "validation_error"
                              THEN "generation_apology" ELSE "unexpected_apology")
        /\ ComposeReturnDays("failed", 0, 0, gen)
    /\ UNCHANGED <<current_plan, itinerary_components>>

\* Lines 556-625: a validated itinerary after some attempt.
ComposeGenerated ==
    /\ ComposeGenerates
    /\ \E hs \in HotelLists, nt \in 1..MaxTransport, nd \in 0..MaxDays,
          gen \in Generations :
        LET sel == hotel_selected
            days == forced_days(sel, nd)
            hotels == reorder(hs, sel, itinerary_components.accommodation.name)
        IN  /\ itinerary_components' =
                  register_structured_components(itinerary_components, hotels, nt, days)
            /\ current_plan' =
                  [current_plan EXCEPT
                     !.travel = IF ~has("travel") THEN GeneratedSection ELSE @,
                     !.stays = IF ~sel /\ ~has("stays") THEN GeneratedSection ELSE @]
            /\ ui_flags' = [travel_confirmed_by_composer EXCEPT !.itinerary_presented = TRUE]
            /\ out' = Append(out, "itinerary")
            /\ gen.result = "ok"
            /\ ComposeReturnDays("generated", nd, days, gen)

compose_itinerary ==
    /\ pc = "compose_response"
    /\ \/ ComposeSkip
       \/ ComposeTravelOnly
       \/ ComposeFailed
       \/ ComposeGenerated

\* ------------------------------------------------------------------------
\* refine_itinerary node: refinement_agent
\* ------------------------------------------------------------------------
DEFAULT_PRICE == 999999

\* detect_refinement_intent on the utterances of the model.
refinement_action(m) ==
    CASE m \in {"1", "2", "3", "hotel 2"} -> "select_hotel"
      [] m \in {"show me cheaper hotels", "affordable hotel please"} -> "change_budget"
      [] OTHER -> "none"

selection_index(m) ==
    CASE m = "1" -> 0
      [] m \in {"2", "hotel 2"} -> 1
      [] OTHER -> 2

AsAlternative(acc) == Hotel(acc.name, acc.selected, acc.priced)

Without(seq, i) == [j \in 1..(Len(seq) - 1) |-> IF j < i THEN seq[j] ELSE seq[j + 1]]

can_select(acc, idx) == acc.present /\ idx < Len(acc.alternatives)

\* handle_hotel_selection: alternatives[idx] becomes the accommodation.
handle_hotel_selection(acc, idx) ==
    [present |-> TRUE, name |-> acc.alternatives[idx + 1].name, selected |-> TRUE,
     priced |-> FALSE,
     alternatives |-> <<AsAlternative(acc)>> \o Without(acc.alternatives, idx + 1)]

\* The sort key of the budget switch (line 299).
price_key(h) ==
    LET price_per_night(n) == CASE n = "A" -> 120 [] n = "B" -> 90 [] OTHER -> 150
    IN  IF h.priced THEN price_per_night(h.name) ELSE DEFAULT_PRICE

\* sorted() is stable: position of the first hotel with the least key.
Cheapest(hs) ==
    CHOOSE i \in 1..Len(hs) :
        /\ \A j \in 1..Len(hs) : price_key(hs[i]) <= price_key(hs[j])
        /\ \A j \in 1..(i - 1) : price_key(hs[j]) > price_key(hs[i])

RECURSIVE SortByPrice(_)
SortByPrice(hs) ==
    IF hs = <<>> THEN <<>>
    ELSE LET i == Cheapest(hs) IN <<hs[i]>> \o SortByPrice(Without(hs, i))

\* Lines 285-334: the cheapest of the accommodation and its alternatives.
switch_to_cheapest(acc) ==
    LET sorted == SortByPrice(<<AsAlternative(acc)>> \o acc.alternatives)
        cheapest == sorted[1]
    IN  [present |-> TRUE, name |-> cheapest.name, selected |-> TRUE,
         priced |-> cheapest.priced,
         alternatives |-> SelectSeq(sorted, LAMBDA h : h.name # cheapest.name)]

RefineReturn(branch) ==
    /\ pc' = IF branch = "raised" THEN "end" ELSE "route_after_refine"
    /\ ran' = Append(ran, "refine_itinerary")
    /\ ev' = [node |-> "refine_itinerary", branch |-> branch,
              before |-> itinerary_components.accommodation]
    /\ UNCHANGED <<api, conversation_context, turns, lastMsg, humanCount, fresh, extracted_info, clarification, discovery,
                   current_plan, refinement_criteria, calls>>

refine_itinerary ==
    /\ pc = "refine_itinerary"
    /\ LET acc == itinerary_components.accommodation
           action == IF lastMsg = NoMsg THEN "none" ELSE refinement_action(lastMsg)
       IN  CASE action = "select_hotel" /\ can_select(acc, selection_index(lastMsg)) ->
                  /\ itinerary_components' = [itinerary_components EXCEPT
                        !.accommodation = handle_hotel_selection(acc, selection_index(lastMsg))]
                  /\ ui_flags' = [ui_flags EXCEPT !.has_selections = TRUE]
                  /\ out' = Append(out, "hotel_updated")
                  /\ RefineReturn("selected")
             [] action = "select_hotel" /\ ~can_select(acc, selection_index(lastMsg)) ->
                  /\ out' = Append(out, "hotel_not_found")
                  /\ RefineReturn("not_found")
                  /\ UNCHANGED <<itinerary_components, ui_flags>>
             [] action = "change_budget" /\ acc.present ->
                  /\ itinerary_components' = [itinerary_components EXCEPT
                        !.accommodation = switch_to_cheapest(acc)]
                  /\ ui_flags' = [ui_flags EXCEPT !.has_selections = TRUE]
                  /\ out' = Append(out, "switched_to_cheapest")
                  /\ RefineReturn("cheapest")
             [] OTHER ->
                  \* change_budget with no accommodation: None.get raises, the
                  \* request fails and the turn is over.
                  /\ RefineReturn(IF action = "change_budget" THEN "raised" ELSE "no_intent")
                  /\ UNCHANGED <<itinerary_components, ui_flags, out>>

\* orchestrator.route_after_refine.
route_after_refine ==
    /\ pc = "route_after_refine"
    /\ LET route == IF ui_flags.hotel_selected /\ itinerary_components.days = {}
                    THEN "compose_full" ELSE "end"
       IN  /\ pc' = IF route = "compose_full" THEN "compose_response" ELSE "end"
           /\ ev' = [node |-> "route_after_refine", route |-> route]
    /\ ui_flags' = [ui_flags EXCEPT !.hotel_selected = FALSE]
    /\ UNCHANGED <<api, conversation_context, turns, lastMsg, humanCount, fresh, extracted_info, clarification, discovery,
                   current_plan, refinement_criteria, itinerary_components,
                   ran, out, calls>>

\* The graph reached END; the server stores the state and waits for a message.
EndTurn ==
    /\ pc = "end"
    /\ pc' = "idle"
    /\ fresh' = FALSE
    /\ ran' = <<>>
    /\ out' = <<>>
    /\ calls' = <<>>
    /\ ev' = NoEv
    /\ UNCHANGED <<api, conversation_context, turns, lastMsg, humanCount, extracted_info, clarification, discovery,
                   current_plan, ui_flags, refinement_criteria, itinerary_components>>

Next ==
    \/ UserInput
    \/ EmptyInput
    \/ extract_travel_info
    \/ route_after_extract
    \/ suggest_destinations
    \/ route_after_discover
    \/ run_travel_research
    \/ run_stays_research
    \/ run_activities_research
    \/ compose_itinerary
    \/ refine_itinerary
    \/ route_after_refine
    \/ EndTurn

Spec == Init /\ [][Next]_vars

\* APP.invoke runs the walk it started to its end: a turn under way is not
\* suspended for ever.
SpecLive == Spec /\ WF_vars(Next)

\* ------------------------------------------------------------------------
\* The merge gate on its own: a staged runner whose agent is stubbed to hand
\* back an arbitrary patch (new or legacy structure) over an arbitrary section.
\* ------------------------------------------------------------------------
MaxSources == 1
MaxResults == 1

Kinds == {"travel", "stays", "activities"}
ResearchNodes == {"research_travel", "research_stays", "research_activities"}

TripTo(d) ==
    [EmptyInfo EXCEPT !.origin = "Tracy", !.destination = d,
                      !.departure_date = "2026-12-01", !.return_date = "2026-12-05",
                      !.trip_purpose = "fun", !.travel_pack = "family"]

PatchShapes ==
    { Payload(r, s, m, q) : r \in {None, "", Blank, "recommendations"},
                            s \in 0..MaxSources,
                            m \in {None, "legacy summary"},
                            q \in 0..MaxResults }

ExistingSections(kind) ==
    { NoSection,
      Stored(Payload("recommendations", 1, None, 0),
             compute_fp(TripTo("Paris"), SectionKeys(kind))) }

InitMerge ==
    /\ \E kind \in Kinds :
        /\ pc = "research_" \o kind
        /\ \E sec \in ExistingSections(kind) :
            current_plan = [[travel |-> NoSection, stays |-> NoSection,
                             activities |-> NoSection] EXCEPT ![kind] = sec]
    /\ extracted_info \in { TripTo("Paris"), TripTo("Rome") }
    /\ turns = 1
    /\ lastMsg = "plan a trip"
    /\ humanCount = 1
    /\ clarification = [status |-> "complete",
                        confirmed_hash |-> hash_required(extracted_info)]
    /\ discovery = [cycle_count |-> 0, resolved |-> FALSE]
    /\ ui_flags = [f \in FlagNames |-> f = "confirmed"]
    /\ refinement_criteria = FALSE
    /\ itinerary_components = [accommodation |-> [present |-> FALSE],
                               transport |-> 0, days |-> {}]
    /\ fresh = TRUE
    /\ conversation_context = NewContext
    /\ api = NoApi
    /\ ran = <<"extract_info">>
    /\ out = <<>>
    /\ calls = <<>>
    /\ ev = NoEv

\* _run_<kind>_research with find_<kind> returning the patch p.
run_research_with_patch ==
    \E kind \in Kinds, p \in PatchShapes :
        /\ pc = "research_" \o kind
        /\ merge_and_continue(kind, TRUE, p, FALSE)

NextMerge == run_research_with_patch

SpecMerge == InitMerge /\ [][NextMerge]_vars

\* ------------------------------------------------------------------------
\* core/component_registry on its own: the registry of one conversation,
\* driven by arbitrary register / get / find / update / delete calls.  The
\* registry is held in itinerary_components, the last call in ev.
\* ------------------------------------------------------------------------
MaxRegistered == 3
MaxRegDay == 1

RegNone == [kind |-> "none"]          \* the key holds None
RegAbsent == [kind |-> "absent"]      \* the key is not in the dict
Raised == [kind |-> "raised"]         \* the call raised (AttributeError)
NotFound == [kind |-> "not_found"]    \* None / (None, None)
Bool(b) == [kind |-> "bool", value |-> b]

\* A registered component: its stamped id and type, its name and one more
\* field (v) that update_component may overwrite.
Component(id, type, name, v) ==
    [kind |-> "comp", id |-> id, type |-> type, name |-> name, v |-> v]

IsComponent(x) == x.kind = "comp"

NoDay == 0                            \* day_number is None
NoSlot == "<none>"                    \* time_slot is None

\* new_state: accommodation and transport are None, days is empty.
NewRegistry ==
    [accommodation |-> RegNone, transport |-> RegNone,
     days |-> [d \in 1..MaxRegDay |-> [morning_slot |-> RegAbsent, components |-> <<>>]],
     next_id |-> 1]

\* register_component: stamp the data and store it by type / day / slot.
register_component(reg, type, name, day, slot) ==
    LET c == Component(reg.next_id, type, name, "v0")
        stored ==
            IF type = "accommodation" THEN [reg EXCEPT !.accommodation = c]
            ELSE IF type = "transport" THEN [reg EXCEPT !.transport = c]
            ELSE IF day # NoDay
            THEN IF slot # NoSlot
                 THEN [reg EXCEPT !.days[day].morning_slot = c]
                 ELSE [reg EXCEPT !.days[day].components = Append(@, c)]
            ELSE reg
    IN  [stored EXCEPT !.next_id = reg.next_id + 1]

\* Where a component id sits in the days, if anywhere.
DayPaths(reg, id) ==
    { <<d, "morning_slot", 0>> : d \in { e \in 1..MaxRegDay :
          /\ IsComponent(reg.days[e].morning_slot)
          /\ reg.days[e].morning_slot.id = id } }
    \cup
    { <<x[1], "components", x[2]>> : x \in { y \in (1..MaxRegDay) \X (1..MaxRegistered) :
          /\ y[2] <= Len(reg.days[y[1]].components)
          /\ reg.days[y[1]].components[y[2]].id = id } }

\* get_component_path; components.get("accommodation", {}) is None while the
\* key holds None, and None.get raises.
get_component_path(reg, id) ==
    IF reg.accommodation = RegNone THEN Raised
    ELSE IF IsComponent(reg.accommodation) /\ reg.accommodation.id = id
    THEN [kind |-> "path", path |-> <<0, "accommodation", 0>>]
    ELSE IF reg.transport = RegNone THEN Raised
    ELSE IF IsComponent(reg.transport) /\ reg.transport.id = id
    THEN [kind |-> "path", path |-> <<0, "transport", 0>>]
    ELSE IF DayPaths(reg, id) # {}
    THEN [kind |-> "path", path |-> CHOOSE q \in DayPaths(reg, id) : TRUE]
    ELSE NotFound

At(reg, path) ==
    IF path[2] = "accommodation" THEN reg.accommodation
    ELSE IF path[2] = "transport" THEN reg.transport
    ELSE IF path[2] = "morning_slot" THEN reg.days[path[1]].morning_slot
    ELSE reg.days[path[1]].components[path[3]]

\* get_component: the same walk, returning the component.
get_component(reg, id) ==
    LET p == get_component_path(reg, id)
    IN  IF p.kind = "path" THEN At(reg, p.path) ELSE p

\* update_component: [registry after, result].
update_component(reg, id, v) ==
    LET p == get_component_path(reg, id)
    IN  IF p.kind # "path" THEN <<reg, IF p = Raised THEN Raised ELSE Bool(FALSE)>>
        ELSE LET q == p.path
                 after ==
                    IF q[2] = "accommodation" THEN [reg EXCEPT !.accommodation.v = v]
                    ELSE IF q[2] = "transport" THEN [reg EXCEPT !.transport.v = v]
                    ELSE IF q[2] = "morning_slot"
                    THEN [reg EXCEPT !.days[q[1]].morning_slot.v = v]
                    ELSE [reg EXCEPT !.days[q[1]].components[q[3]].v = v]
             IN <<after, Bool(TRUE)>>

\* delete_component: [registry after, result].
delete_component(reg, id) ==
    LET p == get_component_path(reg, id)
    IN  IF p.kind # "path" THEN <<reg, IF p = Raised THEN Raised ELSE Bool(FALSE)>>
        ELSE LET q == p.path
                 after ==
                    IF q[2] = "accommodation" THEN [reg EXCEPT !.accommodation = RegAbsent]
                    ELSE IF q[2] = "transport" THEN [reg EXCEPT !.transport = RegAbsent]
                    ELSE IF q[2] = "morning_slot"
                    THEN [reg EXCEPT !.days[q[1]].morning_slot = RegAbsent]
                    ELSE [reg EXCEPT !.days[q[1]].components = Without(@, q[3])]
             IN <<after, Bool(TRUE)>>

RECURSIVE collect_days(_, _)
collect_days(reg, d) ==
    IF d > MaxRegDay THEN <<>>
    ELSE (IF IsComponent(reg.days[d].morning_slot)
          THEN <<reg.days[d].morning_slot>> ELSE <<>>)
         \o reg.days[d].components
         \o collect_days(reg, d + 1)

\* _collect_all_components, in order.
collect_all_components(reg) ==
    (IF IsComponent(reg.accommodation) THEN <<reg.accommodation>> ELSE <<>>)
    \o (IF IsComponent(reg.transport) THEN <<reg.transport>> ELSE <<>>)
    \o collect_days(reg, 1)

\* find_component: accommodation words, transport words, day and slot (with
\* the filter by component type), then the fuzzy match by name
\* (`ref_lower in comp_name or comp_name in ref_lower` on the references and
\* names of the model: the empty name is a substring of every reference).
find_component(reg, ref) ==
    LET accommodation_words == ref \in {"the hotel"}
        transport_words == ref \in {"my flight", "day 1 morning drive"}
        target_day == IF ref \in {"day 1 morning", "day 1 morning activity",
                                  "day 1 morning drive"}
                      THEN 1 ELSE NoDay
        activity_words == ref \in {"day 1 morning activity"}
        all == collect_all_components(reg)
        hits == { i \in DOMAIN all : all[i].name = "" \/ ref = all[i].name }
        fuzzy == IF hits = {} THEN NotFound
                 ELSE all[CHOOSE i \in hits : \A j \in hits : i <= j]
    IN  IF accommodation_words /\ IsComponent(reg.accommodation) THEN reg.accommodation
        ELSE IF transport_words /\ IsComponent(reg.transport) THEN reg.transport
        ELSE IF /\ target_day # NoDay
                /\ IsComponent(reg.days[target_day].morning_slot)
                /\ activity_words => reg.days[target_day].morning_slot.type = "activity"
        THEN reg.days[target_day].morning_slot
        ELSE fuzzy

InitRegistry ==
    /\ pc = "registry"
    /\ itinerary_components = NewRegistry
    /\ ev = [op |-> "none"]
    /\ turns = 0
    /\ lastMsg = NoMsg
    /\ humanCount = 0
    /\ extracted_info = EmptyInfo
    /\ clarification = [status |-> None, confirmed_hash |-> NoHash]
    /\ discovery = [cycle_count |-> 0, resolved |-> FALSE]
    /\ current_plan = [travel |-> NoSection, stays |-> NoSection, activities |-> NoSection]
    /\ ui_flags = [f \in FlagNames |-> FALSE]
    /\ refinement_criteria = FALSE
    /\ fresh = FALSE
    /\ conversation_context = NewContext
    /\ api = NoApi
    /\ ran = <<>>
    /\ out = <<>>
    /\ calls = <<>>

RegistryFrame ==
    UNCHANGED <<pc, api, conversation_context, turns, lastMsg, humanCount, extracted_info, clarification, discovery,
                current_plan, ui_flags, refinement_criteria, fresh, ran, out, calls>>

RegIds == 1..(MaxRegistered + 1)      \* every id handed out, and one never handed out

Register ==
    /\ itinerary_components.next_id <= MaxRegistered
    /\ \E type \in {"accommodation", "transport", "activity"}, name \in {"ritz", ""},
          day \in {NoDay} \cup (1..MaxRegDay), slot \in {NoSlot, "morning"} :
        /\ day = NoDay => slot = NoSlot
        /\ itinerary_components' =
              register_component(itinerary_components, type, name, day, slot)
        /\ ev' = [op |-> "register", id |-> itinerary_components.next_id,
                  x |-> [type |-> type, name |-> name, v |-> "v0"],
                  before |-> itinerary_components]
    /\ RegistryFrame

Get ==
    /\ \E id \in RegIds :
        ev' = [op |-> "get", id |-> id,
               result |-> get_component(itinerary_components, id),
               before |-> itinerary_components]
    /\ UNCHANGED itinerary_components
    /\ RegistryFrame

Find ==
    /\ \E ref \in {"the hotel", "my flight", "day 1 morning", "day 1 morning activity",
                 "day 1 morning drive", "ritz", "zzz"} :
        ev' = [op |-> "find", ref |-> ref,
               result |-> find_component(itinerary_components, ref),
               before |-> itinerary_components]
    /\ UNCHANGED itinerary_components
    /\ RegistryFrame

Update ==
    /\ \E id \in RegIds :
        LET r == update_component(itinerary_components, id, "v1")
        IN  /\ itinerary_components' = r[1]
            /\ ev' = [op |-> "update", id |-> id, result |-> r[2],
                      before |-> itinerary_components]
    /\ RegistryFrame

Delete ==
    /\ \E id \in RegIds :
        LET r == delete_component(itinerary_components, id)
        IN  /\ itinerary_components' = r[1]
            /\ ev' = [op |-> "delete", id |-> id, result |-> r[2],
                      before |-> itinerary_components]
    /\ RegistryFrame

\* detect_refinement_intent on the swap requests of the model: the target the
\* swap patterns capture, or no intent.  The message /api/refine builds for
\* swap_activity matches none of the patterns.
swap_target(m) ==
    CASE m = "swap the day 1 morning activity" -> [intent |-> TRUE, target |-> "day 1 morning"]
      [] m = "swap the zzz for a park" -> [intent |-> TRUE, target |-> "zzz"]
      [] OTHER -> [intent |-> FALSE]

\* handle_activity_swap: [registry after, result].
handle_activity_swap(reg, ref) ==
    LET found == find_component(reg, ref)
        r == update_component(reg, found.id, "pending_replacement")
    IN  IF ~IsComponent(found) THEN <<reg, Bool(FALSE)>>
        ELSE IF r[2] = Raised THEN <<reg, Raised>>
        ELSE <<r[1], Bool(TRUE)>>

\* refine_itinerary on a swap request: the reply is "swap_accepted" (what
\* would you like instead), "swap_not_found" (could you be more specific), or
\* nothing when no intent is detected.
Swap ==
    /\ \E m \in {"swap the day 1 morning activity", "swap the zzz for a park",
                  "Can you suggest a different morning activity for day 1?"} :
        LET intent == swap_target(m)
            r == IF intent.intent
                 THEN handle_activity_swap(itinerary_components, intent.target)
                 ELSE <<itinerary_components, NotFound>>
        IN  /\ itinerary_components' = r[1]
            /\ ev' = [op |-> "swap", msg |-> m, result |-> r[2],
                      reply |-> IF ~intent.intent THEN "none"
                                ELSE IF r[2] = Raised THEN "raised"
                                ELSE IF r[2] = Bool(TRUE) THEN "swap_accepted"
                                ELSE "swap_not_found",
                      before |-> itinerary_components]
    /\ RegistryFrame

NextRegistry ==
    \/ Register
    \/ Get
    \/ Find
    \/ Update
    \/ Delete
    \/ Swap

SpecRegistry == InitRegistry /\ [][NextRegistry]_vars

\* ------------------------------------------------------------------------
\* core/context_tracker on its own: pending decisions and implicit references
\* over a registry that holds three day activities (ids 1, 2, 3), with or
\* without an accommodation (4) and a transport (5) registered after them.
\* ------------------------------------------------------------------------
MaxRecent == 11

\* deque(maxlen=10).
RECENT_MAXLEN == 10

\* What a log keeps of the entries given to it: a deque its last 10, the
\* plain list of new_state all of them.
kept_recent(is_deque, entries) ==
    IF is_deque /\ Len(entries) > RECENT_MAXLEN
    THEN SubSeq(entries, Len(entries) - RECENT_MAXLEN + 1, Len(entries))
    ELSE entries

\* Variant: the pending decision is returned and left in place.
clear_pending_decision_kept(ctx) == <<ctx, ctx.pending_decision>>

\* clear_pending_decision: [context after, the decision returned].
clear_pending_decision(ctx) ==
    <<[ctx EXCEPT !.pending_decision = [present |-> FALSE]], ctx.pending_decision>>

\* resolve_implicit_reference on the utterances "2", "option 1", "4",
\* "the second one", "last one", "it" and "zzz": the number \b(\d+)\b finds,
\* the ordinal word, the pronoun.  No utterance of the model names a type.
resolve_implicit_reference(reg, ctx, msg) ==
    LET pending == ctx.pending_decision
        k == CASE msg = "2" -> 2 [] msg = "option 1" -> 1 [] msg = "4" -> 4 [] OTHER -> 0
        ord == CASE msg = "the second one" -> 2 [] msg = "last one" -> -1 [] OTHER -> 0
        numeric ==
            IF pending.present /\ k >= 1 /\ k <= Len(pending.options)
               /\ pending.options[k] # 0
            THEN get_component(reg, pending.options[k]) ELSE NotFound
        ordinal ==
            IF ~pending.present \/ ord = 0 THEN NotFound
            ELSE IF ord = -1
            THEN IF pending.options = <<>> THEN Raised
                 ELSE IF pending.options[Len(pending.options)] = 0 THEN NotFound
                 ELSE get_component(reg, pending.options[Len(pending.options)])
            ELSE IF ord <= Len(pending.options) /\ pending.options[ord] # 0
            THEN get_component(reg, pending.options[ord]) ELSE NotFound
        current ==
            IF msg = "it" /\ ctx.current_component_id # 0
            THEN get_component(reg, ctx.current_component_id) ELSE NotFound
        recent ==
            IF msg = "it" /\ ctx.recent_components # <<>>
            THEN get_component(reg, ctx.recent_components[Len(ctx.recent_components)])
            ELSE NotFound
    IN  IF numeric # NotFound THEN numeric
        ELSE IF ordinal # NotFound THEN ordinal
        ELSE IF current # NotFound THEN current
        ELSE recent

InitContext ==
    /\ pc = "context"
    /\ LET r1 == register_component(NewRegistry, "activity", "ritz", 1, NoSlot)
           r2 == register_component(r1, "activity", "ritz", 1, NoSlot)
           r3 == register_component(r2, "activity", "ritz", 1, NoSlot)
           r4 == register_component(r3, "accommodation", "ritz", NoDay, NoSlot)
           r5 == register_component(r4, "transport", "ritz", NoDay, NoSlot)
       IN  itinerary_components \in {r3, r5}
    /\ conversation_context = NewContext
    /\ api = NoApi
    /\ ev = [op |-> "none"]
    /\ turns = 0
    /\ lastMsg = NoMsg
    /\ humanCount = 0
    /\ extracted_info = EmptyInfo
    /\ clarification = [status |-> None, confirmed_hash |-> NoHash]
    /\ discovery = [cycle_count |-> 0, resolved |-> FALSE]
    /\ current_plan = [travel |-> NoSection, stays |-> NoSection, activities |-> NoSection]
    /\ ui_flags = [f \in FlagNames |-> FALSE]
    /\ refinement_criteria = FALSE
    /\ fresh = FALSE
    /\ ran = <<>>
    /\ out = <<>>
    /\ calls = <<>>

ContextFrame ==
    UNCHANGED <<pc, api, itinerary_components, turns, lastMsg, humanCount, extracted_info,
                clarification, discovery, current_plan, ui_flags, refinement_criteria,
                fresh, ran, out, calls>>

\* set_pending_decision: the new decision replaces whatever was pending.
SetPending ==
    /\ \E opts \in { <<1, 2, 3>>, <<3, 1>>, <<2, 0>>, <<>> } :
        /\ conversation_context' =
              [conversation_context EXCEPT
                  !.pending_decision = [present |-> TRUE, options |-> opts]]
        /\ ev' = [op |-> "set", options |-> opts, before |-> conversation_context]
    /\ ContextFrame

ClearPending ==
    /\ LET r == clear_pending_decision(conversation_context)
       IN  /\ conversation_context' = r[1]
           /\ ev' = [op |-> "clear", result |-> r[2], before |-> conversation_context]
    /\ ContextFrame

Resolve ==
    /\ \E msg \in {"2", "option 1", "4", "the second one", "last one", "it", "zzz"} :
        ev' = [op |-> "resolve", msg |-> msg,
               result |-> resolve_implicit_reference(itinerary_components,
                                                     conversation_context, msg),
               before |-> conversation_context]
    /\ UNCHANGED conversation_context
    /\ ContextFrame

\* reset_context(keep_history): the log becomes deque(recent, maxlen=10).
ResetContext ==
    /\ \E keep \in BOOLEAN :
        /\ conversation_context' =
              [NewContext EXCEPT
                  !.recent_components =
                      IF keep THEN kept_recent(TRUE, conversation_context.recent_components)
                      ELSE <<>>,
                  !.recent_is_deque = TRUE]
        /\ ev' = [op |-> "reset", keep |-> keep, before |-> conversation_context]
    /\ ContextFrame

\* track_component_discussion: no consecutive duplicate in recent_components.
Track ==
    /\ Len(conversation_context.recent_components) < MaxRecent
    /\ \E id \in 1..2 :
        LET recent == conversation_context.recent_components
        IN  /\ conversation_context' =
                  [conversation_context EXCEPT
                      !.recent_components =
                          IF recent # <<>> /\ recent[Len(recent)] = id
                          THEN recent
                          ELSE kept_recent(conversation_context.recent_is_deque,
                                           Append(recent, id)),
                      !.current_component_id = id]
            /\ ev' = [op |-> "track", id |-> id, before |-> conversation_context]
    /\ ContextFrame

NextContext ==
    \/ SetPending
    \/ ClearPending
    \/ Resolve
    \/ ResetContext
    \/ Track

SpecContext == InitContext /\ [][NextContext]_vars

\* ------------------------------------------------------------------------
\* The days of a generated itinerary: component_schemas.StructuredItinerary
\* validates what the generation step proposed, the composer registers the
\* result.  A proposed day is its day_number and its theme (here: the position
\* it was proposed at).
\* ------------------------------------------------------------------------
MaxProposed == 2

\* DayItinerary.day_number: ge=1, le=7.
MaxDayNumber == 7

\* sorted(v, key=lambda d: d.day_number): stable.
RECURSIVE sorted_days(_)
sorted_days(v) ==
    IF v = <<>> THEN <<>>
    ELSE LET rest == sorted_days(SubSeq(v, 1, Len(v) - 1))
             d == v[Len(v)]
             k == Cardinality({i \in 1..Len(rest) : rest[i].day_number <= d.day_number})
         IN  SubSeq(rest, 1, k) \o <<d>> \o SubSeq(rest, k + 1, Len(rest))

\* Variant: the days are sorted and keep the numbers they were proposed with.
validate_days_sorted_only(v) == sorted_days(v)

\* validate_days_sequential: sort by day_number, then number 1..N.
validate_days_sequential(v) ==
    LET s == sorted_days(v)
    IN  [i \in 1..Len(s) |-> [s[i] EXCEPT !.day_number = i]]

\* _register_structured_components, the loop over itinerary.days: every day
\* has three filled slots, so every day registers under its day key.
register_days(comps, days) ==
    [comps EXCEPT !.days = @ \cup {days[i].day_number : i \in 1..Len(days)}]

InitDays ==
    /\ pc = "compose_days"
    /\ itinerary_components =
          [accommodation |-> [present |-> TRUE, name |-> "A", selected |-> TRUE,
                              priced |-> TRUE,
                              alternatives |-> <<Hotel("B", FALSE, TRUE),
                                                 Hotel("C", FALSE, TRUE)>>],
           transport |-> 1, days |-> {}]
    /\ conversation_context = NewContext
    /\ api = NoApi
    /\ ev = [op |-> "none"]
    /\ turns = 0
    /\ lastMsg = NoMsg
    /\ humanCount = 0
    /\ extracted_info = EmptyInfo
    /\ clarification = [status |-> "complete", confirmed_hash |-> NoHash]
    /\ discovery = [cycle_count |-> 0, resolved |-> FALSE]
    /\ current_plan = [travel |-> NoSection, stays |-> NoSection, activities |-> NoSection]
    /\ ui_flags = [f \in FlagNames |-> FALSE]
    /\ refinement_criteria = FALSE
    /\ fresh = FALSE
    /\ ran = <<>>
    /\ out = <<>>
    /\ calls = <<>>

\* One generation attempt with the hotel selected: the proposal is validated
\* (a day_number outside 1..7 is a validation error) and, if valid, registered.
GenerateDays ==
    /\ \E n \in 0..MaxProposed :
       \E nums \in [1..n -> 0..(MaxDayNumber + 1)] :
        LET proposed == [i \in 1..n |-> [day_number |-> nums[i], theme |-> i]]
            valid == \A i \in 1..n : nums[i] >= 1 /\ nums[i] <= MaxDayNumber
            days == validate_days_sequential(proposed)
        IN  IF valid
            THEN /\ itinerary_components' = register_days(itinerary_components, days)
                 /\ ev' = [op |-> "generated", proposed |-> proposed, days |-> days,
                           before |-> itinerary_components]
            ELSE /\ ev' = [op |-> "validation_error", proposed |-> proposed]
                 /\ UNCHANGED itinerary_components
    /\ UNCHANGED <<pc, api, conversation_context, turns, lastMsg, humanCount, extracted_info,
                   clarification, discovery, current_plan, ui_flags, refinement_criteria,
                   fresh, ran, out, calls>>

NextDays == GenerateDays

SpecDays == InitDays /\ [][NextDays]_vars

\* ------------------------------------------------------------------------
\* core/fp.compute_fp on its own: two mappings, a key list and a permutation
\* of it.  A mapping may lack any of its keys.
\* ------------------------------------------------------------------------
MaxFpKeys == 2

\* The calls looked at: mappings a and b, a key list and a second list with
\* the same keys.
FpInputs ==
    LET absent == "<absent>"
        mappings ==
            { [k \in {f \in DOMAIN m : m[f] # absent} |-> m[k]] :
                m \in [destination : {absent, None, "", Blank, "null", " null ", "NULL",
                                      "Paris", " Paris ", "Rome"},
                       origin : {absent, None, "Tracy"},
                       travel_pack : {absent, "solo"}] }
        names == {"destination", "origin", "trip_purpose"}
        key_lists ==
            UNION { { q \in [1..n -> names] : \A i, j \in 1..n : q[i] = q[j] => i = j } :
                    n \in 0..MaxFpKeys }
    IN  { x \in [op : {"input"}, a : mappings, b : mappings,
                 keys : key_lists, keys2 : key_lists] :
            {x.keys[i] : i \in 1..Len(x.keys)} = {x.keys2[i] : i \in 1..Len(x.keys2)} }

InitFp ==
    /\ pc = "fp"
    /\ ev \in FpInputs
    /\ itinerary_components = NewRegistry
    /\ conversation_context = NewContext
    /\ api = NoApi
    /\ turns = 0
    /\ lastMsg = NoMsg
    /\ humanCount = 0
    /\ extracted_info = EmptyInfo
    /\ clarification = [status |-> None, confirmed_hash |-> NoHash]
    /\ discovery = [cycle_count |-> 0, resolved |-> FALSE]
    /\ current_plan = [travel |-> NoSection, stays |-> NoSection, activities |-> NoSection]
    /\ ui_flags = [f \in FlagNames |-> FALSE]
    /\ refinement_criteria = FALSE
    /\ fresh = FALSE
    /\ ran = <<>>
    /\ out = <<>>
    /\ calls = <<>>

\* compute_fp(a, keys), compute_fp(b, keys) and compute_fp(a, keys2).
ComputeFp ==
    /\ ev.op = "input"
    /\ ev' = [op |-> "compute_fp", a |-> ev.a, b |-> ev.b, keys |-> ev.keys,
              keys2 |-> ev.keys2,
              fp_a |-> compute_fp(ev.a, ev.keys), fp_b |-> compute_fp(ev.b, ev.keys),
              fp_a2 |-> compute_fp(ev.a, ev.keys2)]
    /\ UNCHANGED <<pc, api, itinerary_components, conversation_context, turns, lastMsg,
                   humanCount, extracted_info, clarification, discovery, current_plan,
                   ui_flags, refinement_criteria, fresh, ran, out, calls>>

NextFp == ComputeFp

SpecFp == InitFp /\ [][NextFp]_vars

\* ------------------------------------------------------------------------
\* api_server: requests for one conversation id that are in flight at once.
\* The handlers chat and refine are coroutines of one event loop; api.objs are
\* the state dicts (their message lists), api.conversations the dict the id
\* maps to (0: none), api.running the coroutine the loop is executing.
\* ------------------------------------------------------------------------
MaxRequests == 2

\* Variant: the handler awaits the session, giving the event loop back.
handler_awaits_session(at) == at = "handled"

\* Whether the handler gives the event loop back after reaching `at`: the
\* bodies of chat and refine contain no await, handle_user_input and
\* run_session are plain calls.
handler_awaits(at) == FALSE

InitApi ==
    /\ pc = "api"
    /\ \E exists \in BOOLEAN :
        api = [running |-> 0,
               conversations |-> IF exists THEN 1 ELSE 0,
               objs |-> IF exists THEN << <<>> >> ELSE <<>>,
               req |-> [r \in 1..MaxRequests |->
                          [kind |-> "none", at |-> "not_sent", ref |-> 0,
                           overlapped |-> FALSE]]]
    /\ itinerary_components = NewRegistry
    /\ conversation_context = NewContext
    /\ ev = [op |-> "none"]
    /\ turns = 0
    /\ lastMsg = NoMsg
    /\ humanCount = 0
    /\ extracted_info = EmptyInfo
    /\ clarification = [status |-> None, confirmed_hash |-> NoHash]
    /\ discovery = [cycle_count |-> 0, resolved |-> FALSE]
    /\ current_plan = [travel |-> NoSection, stays |-> NoSection, activities |-> NoSection]
    /\ ui_flags = [f \in FlagNames |-> FALSE]
    /\ refinement_criteria = FALSE
    /\ fresh = FALSE
    /\ ran = <<>>
    /\ out = <<>>
    /\ calls = <<>>

\* A client sends POST /api/chat or POST /api/refine for the conversation id,
\* whatever the server is doing (overlapped: a handler was running then).
Arrive ==
    /\ \E r \in 1..MaxRequests, kind \in {"chat", "refine"} :
        /\ api.req[r].at = "not_sent"
        /\ api' = [api EXCEPT !.req[r].kind = kind, !.req[r].at = "in_flight",
                              !.req[r].overlapped = api.running # 0]
        /\ ev' = [op |-> "arrive", r |-> r, at |-> "in_flight"]
    /\ UNCHANGED <<pc, itinerary_components, conversation_context, turns, lastMsg,
                   humanCount, extracted_info, clarification, discovery, current_plan,
                   ui_flags, refinement_criteria, fresh, ran, out, calls>>

\* The next statement of the handler of request r: look the conversation up
\* (chat creates and stores a missing one, refine answers 404),
\* handle_user_input appends to the dict it holds, run_session returns the new
\* state, the handler stores it and returns; when a node raises, run_session
\* re-raises and the handler answers 500 without storing anything.
Serve(r) ==
  \E raised \in BOOLEAN :
    LET q == api.req[r]
        new_ref == Len(api.objs) + 1
        after ==
            CASE q.at = "in_flight" /\ api.conversations = 0 /\ q.kind = "refine" ->
                    [api EXCEPT !.req[r].at = "not_found"]
              [] q.at = "in_flight" /\ api.conversations = 0 /\ q.kind = "chat" ->
                    [api EXCEPT !.objs = Append(@, <<>>), !.conversations = new_ref,
                                !.req[r].ref = new_ref, !.req[r].at = "loaded"]
              [] q.at = "in_flight" /\ api.conversations # 0 ->
                    [api EXCEPT !.req[r].ref = api.conversations, !.req[r].at = "loaded"]
              [] q.at = "loaded" ->
                    [api EXCEPT !.objs[q.ref] = Append(@, <<"human", r>>),
                                !.req[r].at = "handled"]
              [] q.at = "handled" /\ raised ->
                    [api EXCEPT !.req[r].at = "failed"]
              [] q.at = "handled" /\ ~raised ->
                    [api EXCEPT !.objs = Append(@, Append(api.objs[q.ref], <<"ai", r>>)),
                                !.req[r].ref = new_ref, !.req[r].at = "ran"]
              [] q.at = "ran" ->
                    [api EXCEPT !.conversations = q.ref, !.req[r].at = "done"]
        at_after == after.req[r].at
    IN  /\ q.at \notin {"not_sent", "done", "not_found", "failed"}
        /\ raised => q.at = "handled"
        /\ api.running \in {0, r}
        /\ api' = [after EXCEPT !.running =
                      IF at_after \in {"done", "not_found", "failed"}
                         \/ handler_awaits(at_after)
                      THEN 0 ELSE r]
        /\ ev' = [op |-> "serve", r |-> r, at |-> at_after]
        /\ UNCHANGED <<pc, itinerary_components, conversation_context, turns, lastMsg,
                       humanCount, extracted_info, clarification, discovery, current_plan,
                       ui_flags, refinement_criteria, fresh, ran, out, calls>>

ServeSome == \E r \in 1..MaxRequests : Serve(r)

NextApi ==
    \/ Arrive
    \/ ServeSome

SpecApi == InitApi /\ [][NextApi]_vars

\* ------------------------------------------------------------------------
\* Properties
\* ------------------------------------------------------------------------
RanSome(nodes) == \E i \in DOMAIN ran : ran[i] \in nodes

\* C1: route_after_extract returns ask_more whenever clarification is not
\* complete, discover whenever it is complete and the destination is absent or
\* blank, and a research_* or refine route only when clarification is complete
\* and the destination is non-blank; so no research, compose or refine node
\* runs in a turn routed with incomplete clarification, and no research node
\* ever runs while the destination is blank.
C1_RoutingContract ==
    /\ ev.node = "route_after_extract" =>
        /\ clarification.status # "complete" => ev.route = "ask_more"
        /\ clarification.status = "complete" /\ destination_blank => ev.route = "discover"
        /\ ev.route \notin {"ask_more", "discover"} =>
              clarification.status = "complete" /\ ~destination_blank
    /\ RanSome(ResearchNodes \cup {"compose_response", "refine_itinerary"}) =>
          clarification.status = "complete"
    /\ RanSome(ResearchNodes) => ~destination_blank

IsConfirmationMessage == lastMsg \in {"yes", "looks good"}

\* C2: with clarification complete and a destination set, the routing step
\* (i) goes to research_travel when the travel section is empty; (ii) goes to
\* research_stays and sets travel_confirmed when travel is populated,
\* travel_confirmed is false and the last user message is a confirmation;
\* (iii) goes to research_activities and sets hotel_confirmed when stays is
\* populated, hotel_confirmed is false and the last message is a confirmation.
C2_StagedRouting ==
    [][ (/\ pc = "route_after_extract"
         /\ clarification.status = "complete"
         /\ extracted_info.destination \notin {None, "", Blank})
        => /\ ~current_plan.travel.present => pc' = "research_travel"
           /\ (/\ current_plan.travel.present
               /\ ~ui_flags.travel_confirmed
               /\ IsConfirmationMessage)
              => pc' = "research_stays" /\ ui_flags'.travel_confirmed
           /\ (/\ current_plan.stays.present
               /\ ~ui_flags.hotel_confirmed
               /\ IsConfirmationMessage)
              => pc' = "research_activities" /\ ui_flags'.hotel_confirmed ]_vars

\* The hotel stage was confirmed with "looks good" and activities research is next.
C2_Witness ==
    /\ ev.node = "route_after_extract"
    /\ ev.stage = "awaiting_hotel_confirm"
    /\ lastMsg = "looks good"
    /\ pc = "research_activities"
    /\ ui_flags.hotel_confirmed

\* C3: in every turn at most one research node executes, each execution is
\* followed in the same turn by compose_response and then the end of the turn,
\* and a research stage only starts in a turn opened by a new user message.
C3_OneStagePerTurn ==
    /\ Cardinality({i \in DOMAIN ran : ran[i] \in ResearchNodes}) <= 1
    /\ \A i \in DOMAIN ran :
          ran[i] \in ResearchNodes =>
             IF i = Len(ran) THEN pc = "compose_response"
             ELSE /\ Len(ran) = i + 1
                  /\ ran[i + 1] = "compose_response"
                  /\ pc = "end"
    /\ RanSome(ResearchNodes) => fresh

\* C4: a research runner that finds its section populated with a fingerprint
\* equal to the one freshly computed from extracted_info makes no call to the
\* external research agent and leaves the section as it was.
C4_FingerprintSkip ==
    (/\ ev.node \in ResearchNodes
     /\ ev.before.present
     /\ ev.before.fp = compute_fp(extracted_info, SectionKeys(ev.kind)))
    => /\ ~ev.called
       /\ current_plan[ev.kind] = ev.before

PatchIsEmpty(p) ==
    /\ p.recommendations \in {None, "", Blank}
    /\ p.sources = 0

PatchIsLegacyEmpty(p) ==
    /\ p.summary \in {None, "", Blank}
    /\ p.results = 0

C6_FingerprintCurrent ==
    (/\ ev.node = "route_after_extract"
     /\ ev.route \in ResearchNodes \cup {"refine"})
    => \A k \in Kinds :
          (current_plan[k].present /\ ev.route # "research_" \o k)
          => current_plan[k].fp = compute_fp(extracted_info, SectionKeys(k))

RequiredHeld ==
    /\ extracted_info.origin \notin {None, ""}
    /\ \/ /\ extracted_info.departure_date \notin {None, ""}
          /\ extracted_info.return_date \notin {None, ""}
       \/ extracted_info.duration_days \notin {None, ""}
    /\ extracted_info.trip_purpose \notin {None, ""}
    /\ extracted_info.travel_pack \notin {None, ""}

\* C7: clarification.status is "complete" only if extracted_info holds origin,
\* dates (or duration), trip_purpose and travel_pack and the user has confirmed
\* the summary; until then every turn routes ask_more.
C7_CompleteMeansConfirmed ==
    /\ clarification.status = "complete" => RequiredHeld /\ ui_flags.confirmed
    /\ (ev.node = "route_after_extract" /\ ev.route # "ask_more")
          => RequiredHeld /\ ui_flags.confirmed

\* C8: once the trip facts are confirmed (status complete, confirmed_hash H),
\* an extraction in which no hashed field changes emits no confirmation prompt
\* and leaves the status complete (the extraction LLM call itself succeeding).
C8_ConfirmOnce ==
    [][ (/\ pc = "extract_info"
         /\ pc' = "route_after_extract"
         /\ ev'.branch # "llm_failed"
         /\ clarification.status = "complete"
         /\ clarification.confirmed_hash = hash_required(extracted_info)
         /\ hash_required(extracted_info') = hash_required(extracted_info))
        => /\ clarification'.status = "complete"
           /\ \A i \in DOMAIN out' : out'[i] # "confirmation_card" ]_vars

SearchesIn(s) == Cardinality({i \in DOMAIN s : s[i] = "search"})

\* C9: discovery.cycle_count never decreases and never exceeds 3, every
\* destination search raises it by one, and a discovery run that starts with
\* cycle_count = 3 and no destination makes no search and no intent
\* classification and appends the be-more-specific prompt instead.
C9_DiscoveryCap ==
    /\ [](discovery.cycle_count <= 3)
    /\ []((/\ ev.node = "discover_destination"
           /\ ev.cycle_before = 3
           /\ ~ev.had_destination)
          => /\ \A i \in DOMAIN calls : calls[i] \notin {"search", "intent"}
             /\ out # <<>> /\ out[Len(out)] = "be_more_specific")
    /\ [][ /\ discovery'.cycle_count >= discovery.cycle_count
           /\ SearchesIn(calls') > SearchesIn(calls)
              => /\ SearchesIn(calls') = SearchesIn(calls) + 1
                 /\ discovery'.cycle_count = discovery.cycle_count + 1 ]_vars

\* The fourth discovery run: the cap is hit and the user is asked to be specific.
C9_Witness ==
    /\ ev.node = "discover_destination"
    /\ ev.branch = "max_cycles"
    /\ ev.cycle_before = 3
    /\ ~ev.had_destination
    /\ out = <<"be_more_specific">>

SelectedCount(acc) ==
    (IF acc.selected THEN 1 ELSE 0)
    + Cardinality({i \in DOMAIN acc.alternatives : acc.alternatives[i].selected})

\* C10: after a hotel selection (by number, or the cheaper-hotel switch),
\* exactly one hotel among the primary accommodation and its alternatives has
\* selected = true, and the selected hotel is not in its own alternatives.
C10_SingleSelection ==
    (/\ ev.node = "refine_itinerary"
     /\ ev.branch \in {"selected", "cheapest"})
    => LET acc == itinerary_components.accommodation
       IN  /\ acc.present
           /\ acc.selected
           /\ SelectedCount(acc) = 1
           /\ \A i \in DOMAIN acc.alternatives : acc.alternatives[i].name # acc.name

\* C11: when compose_itinerary generates an itinerary while no accommodation
\* in the registry is marked selected, the itinerary it emits has no days and
\* the compose registers no day component, whatever days the generation step
\* returned.
C11_NoDaysBeforeSelection ==
    (/\ ev.node = "compose_response"
     /\ ev.branch = "generated"
     /\ ~ev.was_selected)
    => /\ ev.emitted_days = 0
       /\ itinerary_components.days = ev.before.days

\* The generation step returned days although no hotel was selected.
C11_Witness ==
    /\ ev.node = "compose_response"
    /\ ev.branch = "generated"
    /\ ~ev.was_selected
    /\ ev.proposed_days > 0
    /\ itinerary_components.accommodation.present

Stamped(x, id) == Component(id, x.type, x.name, x.v)

\* C12: for any component registered through register_component (any type,
\* with or without a day number and time slot), get of the returned id gives
\* the component with its stamped metadata; after an update a get shows the
\* updated field; after a delete a get returns not-found.
C12_RegistryRoundTrip ==
    /\ ev.op = "register" =>
          get_component(itinerary_components, ev.id) = Stamped(ev.x, ev.id)
    /\ (ev.op = "update" /\ ev.result = Bool(TRUE)) =>
          /\ IsComponent(get_component(itinerary_components, ev.id))
          /\ get_component(itinerary_components, ev.id).v = "v1"
    /\ (ev.op = "delete" /\ ev.result = Bool(TRUE)) =>
          get_component(itinerary_components, ev.id) = NotFound

KnownIds(reg) ==
    { id \in RegIds :
        \E i \in DOMAIN collect_all_components(reg) :
            collect_all_components(reg)[i].id = id }

\* C13: in every registry state, the new conversation's included, get, update
\* and delete of an unknown id return not-found (None / False), do not raise
\* and leave the registry unchanged; find of a reference that names nothing
\* registered returns not-found and does not raise.
C13_LookupsAreTotal ==
    /\ (ev.op \in {"get", "update", "delete"} /\ ev.id \notin KnownIds(ev.before)) =>
          /\ ev.result \in {NotFound, Bool(FALSE)}
          /\ itinerary_components = ev.before
    /\ ev.op = "find" =>
          /\ ev.result # Raised
          /\ itinerary_components = ev.before
          /\ ev.ref = "zzz" => ev.result = NotFound

\* C14: while a pending decision with n options is active and every option
\* names a registered component, an utterance that is a number k, 1 <= k <= n,
\* resolves to the component of option k-1 (0-based); "2" with three options
\* resolves to option index 1.
C14_NumberPicksOption ==
    (/\ ev.op = "resolve"
     /\ ev.msg \in {"2", "option 1"}
     /\ ev.before.pending_decision.present
     /\ ev.before.pending_decision.options = <<1, 2, 3>>)
    => /\ IsComponent(ev.result)
       /\ ev.result.id = (IF ev.msg = "2" THEN 2 ELSE 1)

\* C15: the context holds at most one pending decision: set_pending_decision
\* replaces whatever was pending, clear_pending_decision returns what was
\* pending (or none) and leaves none pending, resolve_implicit_reference leaves
\* the pending decision as it is and reset_context leaves none.
C15_OnePendingDecision ==
    /\ DOMAIN conversation_context.pending_decision \in
          {{"present"}, {"present", "options"}}
    /\ ev.op = "set" =>
          conversation_context.pending_decision =
              [present |-> TRUE, options |-> ev.options]
    /\ ev.op = "clear" =>
          /\ ev.result = ev.before.pending_decision
          /\ ~conversation_context.pending_decision.present
    /\ ev.op = "resolve" =>
          conversation_context.pending_decision = ev.before.pending_decision
    /\ ev.op = "reset" => ~conversation_context.pending_decision.present

\* One decision replaced another and was then cleared and returned.
C15_Witness ==
    /\ ev.op = "clear"
    /\ ev.result = [present |-> TRUE, options |-> <<3, 1>>]
    /\ ~conversation_context.pending_decision.present

StageRank(stage) ==
    CASE stage = "need_travel" -> 1
      [] stage = "awaiting_travel_confirm" -> 2
      [] stage = "need_stays" -> 3
      [] stage = "awaiting_hotel_confirm" -> 4
      [] stage = "need_activities" -> 5
      [] OTHER -> 6

\* C16: the workflow stage the router computes from the state (need_travel <
\* awaiting_travel_confirm < need_stays < awaiting_hotel_confirm <
\* need_activities < complete) never moves backwards during a conversation: no
\* step takes the state to an earlier stage.
C16_StageNeverMovesBack ==
    [][StageRank(determine_workflow_stage') >= StageRank(determine_workflow_stage)]_vars

\* C17: after a successful compose the day numbers of the generated itinerary
\* are exactly 1..N, in order, with no gap and no duplicate, and the day keys
\* registered for it are exactly 1..N, whatever day numbers were proposed; no
\* proposed day is lost.
C17_DaysAreOneToN ==
    ev.op = "generated" =>
        LET n == Len(ev.days)
        IN  /\ n = Len(ev.proposed)
            /\ \A i \in 1..n : ev.days[i].day_number = i
            /\ {ev.days[i].theme : i \in 1..n} = 1..n
            /\ itinerary_components.days = ev.before.days \cup 1..n
            /\ itinerary_components.days \ ev.before.days \subseteq 1..n

\* Two days proposed out of order, with a gap.
C17_Witness ==
    /\ ev.op = "generated"
    /\ Len(ev.proposed) = 2
    /\ ev.proposed[1].day_number = 5
    /\ ev.proposed[2].day_number = 3
    /\ ev.days[1].theme = 2

\* C18: one compose makes at most MAX_RETRIES + 1 = 3 generation attempts;
\* when every attempt fails schema validation the node returns normally, has
\* appended exactly one message, the apology, and has left the component
\* registry as it was.
C18_BoundedRetriesThenApology ==
    [][pc = "compose_response" =>
          /\ ev'.attempts <= 3
          /\ (ev'.branch = "failed" /\ ev'.result = "validation_error") =>
                /\ ev'.attempts = 3
                /\ out' = Append(out, "generation_apology")
                /\ itinerary_components' = itinerary_components
                /\ pc' = "end"]_vars

\* Three attempts, every one a validation error.
C18_Witness ==
    /\ ev.node = "compose_response"
    /\ ev.branch = "failed"
    /\ ev.result = "validation_error"
    /\ ev.attempts = 3
    /\ itinerary_components = ev.before
    /\ out # <<>> /\ out[Len(out)] = "generation_apology"

\* The value of key k in mapping m as the claim's normalisation reads it:
\* trimmed, with None, "", "null" and a missing key the same empty value.
StatedMeaning(m, k) ==
    IF k \notin DOMAIN m THEN None
    ELSE IF m[k] = None THEN None
    ELSE IF Strip(m[k]) \in {"", "null"} THEN None
    ELSE Strip(m[k])

\* The same, with "null" in any letter case an empty value.
MeaningAnyCase(m, k) ==
    IF StatedMeaning(m, k) = "NULL" THEN None ELSE StatedMeaning(m, k)

\* C19 as stated: compute_fp(a, K) = compute_fp(b, K) exactly when a and b
\* agree on every key of K after normalisation (strings trimmed; None, "",
\* "null" and a missing key the same empty value), and the result does not
\* depend on the order of K.
C19_FingerprintAsStated ==
    ev.op = "compute_fp" =>
        /\ (ev.fp_a = ev.fp_b) <=>
              (\A i \in 1..Len(ev.keys) :
                  StatedMeaning(ev.a, ev.keys[i]) = StatedMeaning(ev.b, ev.keys[i]))
        /\ ev.fp_a2 = ev.fp_a

\* C19: compute_fp(a, K) = compute_fp(b, K) exactly when a and b agree on
\* every key of K after normalisation, where strings are trimmed and None, "",
\* "null" in any letter case and a missing key are the same empty value; the
\* result depends neither on the order of K nor on a key outside K.
C19_Fingerprint ==
    ev.op = "compute_fp" =>
        /\ (ev.fp_a = ev.fp_b) <=>
              (\A i \in 1..Len(ev.keys) :
                  MeaningAnyCase(ev.a, ev.keys[i]) = MeaningAnyCase(ev.b, ev.keys[i]))
        /\ ev.fp_a2 = ev.fp_a

\* Equal fingerprints of two different mappings under a two-key list given in
\* unsorted order: an untrimmed value against a trimmed one, a missing key
\* against None, and an untracked key only one of them has.
C19_Witness ==
    /\ ev.op = "compute_fp"
    /\ ev.keys = <<"origin", "destination">>
    /\ ev.keys2 = <<"destination", "origin">>
    /\ ev.a = [destination |-> " Paris ", origin |-> None, travel_pack |-> "solo"]
    /\ ev.b = [destination |-> "Paris"]
    /\ ev.fp_a = ev.fp_b

\* C20: after extract_travel_info has merged an extraction result, every field
\* that was present in extracted_info and for which the result gives no value
\* (null, missing or a sentinel string) is still present with its previous
\* value.
C20_MergeKeepsOtherFields ==
    (ev.node = "extract_info" /\ DOMAIN ev.parsed # {"missing"}) =>
        \A k \in InfoKeys :
            (ev.before[k] # None /\ normalize_value(ev.parsed[k]) = None)
                => extracted_info[k] = ev.before[k]

\* C21: in a conversation created by new_state, after any sequence of
\* track_component_discussion calls the recent_components log holds at most 10
\* entries, and a call that adds to a full log drops its oldest entry.
C21_RecentLogBounded ==
    /\ Len(conversation_context.recent_components) <= 10
    /\ (/\ ev.op = "track"
        /\ Len(ev.before.recent_components) = 10
        /\ ev.before.recent_components[10] # ev.id)
       => conversation_context.recent_components =
              Append(Tail(ev.before.recent_components), ev.id)

\* The edges of the graph between nodes.
GraphEdges ==
    ({"extract_info"} \X {"discover_destination", "research_travel", "research_stays",
                          "research_activities", "refine_itinerary"})
    \cup {<<"discover_destination", "research_travel">>,
          <<"research_travel", "compose_response">>,
          <<"research_stays", "compose_response">>,
          <<"research_activities", "compose_response">>,
          <<"refine_itinerary", "compose_response">>}

\* C22: every turn terminates: the walk of one turn starts at extract_info,
\* follows the edges of the graph, executes no node twice and at most four
\* nodes in all, and reaches END whatever the external calls return.
C22_TurnTerminates ==
    /\ [](/\ Len(ran) <= 4
          /\ \A i, j \in 1..Len(ran) : ran[i] = ran[j] => i = j
          /\ ran # <<>> => ran[1] = "extract_info"
          /\ \A i \in 1..(Len(ran) - 1) : <<ran[i], ran[i + 1]>> \in GraphEdges)
    /\ [](pc # "idle" => <>(pc = "idle"))

\* A turn of four nodes that reached END.
C22_Witness ==
    /\ pc = "end"
    /\ ran = <<"extract_info", "discover_destination", "research_travel",
               "compose_response">>

\* The messages of the stored conversation.
StoredMessages == IF api.conversations = 0 THEN <<>> ELSE api.objs[api.conversations]

\* C23: requests for one conversation that are in flight at once do not
\* interleave: at most one of them is between its lookup and its store at any
\* time, and no update is lost: the stored conversation holds, for every
\* request that was served, its user message directly followed by its answer.
C23_RequestsDoNotInterleave ==
    /\ \A r1, r2 \in 1..MaxRequests :
          (/\ api.req[r1].at \in {"loaded", "handled", "ran"}
           /\ api.req[r2].at \in {"loaded", "handled", "ran"}) => r1 = r2
    /\ \A r \in 1..MaxRequests :
          api.req[r].at = "done" =>
              \E i \in 1..(Len(StoredMessages) - 1) :
                  /\ StoredMessages[i] = <<"human", r>>
                  /\ StoredMessages[i + 1] = <<"ai", r>>

\* The second request arrived while the first was between its lookup and its
\* store, and both have been served.
C23_Witness ==
    /\ pc = "api"
    /\ api.req[2].overlapped
    /\ api.req[1].at = "done" /\ api.req[2].at = "done"
    /\ StoredMessages[1] = <<"human", 1>>
    /\ \A r \in 1..2 : api.req[r].at = "done"
    /\ Len(StoredMessages) = 4

\* C24: a hotel the user selected survives composition: after compose_itinerary
\* has registered a generated itinerary while a selected hotel was on record,
\* the accommodation of the registry is still that hotel and is still selected.
C24_SelectionSurvivesCompose ==
    (/\ ev.node = "compose_response"
     /\ ev.branch = "generated"
     /\ ev.was_selected)
    => /\ itinerary_components.accommodation.name = ev.before.accommodation.name
       /\ itinerary_components.accommodation.selected

\* The hotels in the order the composer presented them: the registered
\* accommodation first, then its alternatives.
Presented(acc) == <<acc.name>> \o [j \in 1..Len(acc.alternatives) |-> acc.alternatives[j].name]

\* C25: when the composer has presented three hotels and the user selects
\* hotel i, the selection succeeds: the i-th presented hotel becomes the
\* accommodation with selected = true and the other two are its alternatives.
C25_SelectsPresentedHotel ==
    (/\ ev.node = "refine_itinerary"
     /\ ev.branch \in {"selected", "not_found"}
     /\ ev.before.present /\ ~ev.before.selected
     /\ Len(ev.before.alternatives) = 2)
    => LET acc == itinerary_components.accommodation
           i == selection_index(lastMsg) + 1
       IN  /\ ev.branch = "selected"
           /\ acc.name = Presented(ev.before)[i]
           /\ acc.selected
           /\ {acc.alternatives[j].name : j \in 1..Len(acc.alternatives)}
                = {Presented(ev.before)[j] : j \in 1..3} \ {acc.name}

\* C26: after the refine node has selected a hotel, route_after_refine returns
\* compose_full and the walk goes on to compose_response when the registry
\* holds no days, and the turn ends when it holds days.
C26_SelectionLeadsToFullPlan ==
    (/\ ev.node = "route_after_refine"
     /\ out # <<>> /\ out[Len(out)] = "hotel_updated")
    => IF itinerary_components.days = {}
       THEN ev.route = "compose_full" /\ pc = "compose_response"
       ELSE ev.route = "end" /\ pc = "end"

\* C27: whenever route_after_extract routes to refine at the stage complete, a
\* full itinerary exists: the registry holds a selected hotel and at least one
\* day of schedule.
C27_CompleteMeansFullItinerary ==
    (/\ ev.node = "route_after_extract"
     /\ ev.stage = "complete"
     /\ ev.route = "refine")
    => /\ hotel_selected
       /\ itinerary_components.days # {}

\* C28: at the stage awaiting_hotel_confirm every message that selects a hotel
\* by number ("2", "hotel 2", ...) is routed to refine, never to research_stays.
C28_NumberedSelectionGoesToRefine ==
    (/\ ev.node = "route_after_extract"
     /\ ev.stage = "awaiting_hotel_confirm"
     /\ lastMsg # NoMsg
     /\ refinement_action(lastMsg) = "select_hotel")
    => ev.route = "refine"

\* C29: while a turn runs on a bare acknowledgement as the last user message,
\* no step makes an external research call and no step changes a research
\* section of current_plan (none is re-run, replaced or cleared).
C29_AckLeavesResearchAlone ==
    [][(pc # "idle" /\ lastMsg # NoMsg /\ is_brief_ack(lastMsg))
       => /\ \A i \in 1..Len(calls') : calls'[i] \notin Kinds
          /\ \A k \in Kinds : current_plan'[k] = current_plan[k]]_vars

\* C30: when a research section holds the results of an earlier successful run
\* and a later run of that research yields nothing usable (the agent declines,
\* or hands back only a notice of failure), the section still holds the
\* earlier results after the run.
C30_FailedRunKeepsEarlierResults ==
    (/\ ev.node \in ResearchNodes
     /\ ev.before.present
     /\ ev.before.recommendations = "recommendations"
     /\ \/ ~ev.patch
        \/ ev.payload.recommendations = "failure notice")
    => current_plan[ev.kind] = ev.before

\* C31: when the user confirms the travel options with a phrase the router
\* accepts and the stays agent has the inputs it needs, the turn that runs
\* research_stays ends with a stays section in current_plan and shows the
\* hotel options, not the message about trouble finding accommodation.
C31_ConfirmationRunsStaysResearch ==
    (/\ pc = "end"
     /\ ran = <<"extract_info", "research_stays", "compose_response">>
     /\ user_confirmed
     /\ inputs_complete("stays", extracted_info))
    => /\ has("stays")
       /\ "accommodation_trouble" \notin {out[i] : i \in 1..Len(out)}

\* C32: research never skips a stage of the order travel, stays, activities:
\* research_stays runs only when current_plan.travel is non-empty, and
\* research_activities only when travel and stays are both non-empty (both
\* when the node is entered and when it has run).
C32_ResearchKeepsStageOrder ==
    /\ (pc = "research_stays" \/ ev.node = "research_stays") => has("travel")
    /\ (pc = "research_activities" \/ ev.node = "research_activities")
          => has("travel") /\ has("stays")

\* The activities research has run, after the two earlier stages.
C32_Witness ==
    /\ ev.node = "research_activities"
    /\ ev.called
    /\ has("travel") /\ has("stays") /\ has("activities")

\* get_component over the registry of the conversation: the components a
\* lookup by id can return are the accommodation, the transport and the
\* entries of the days; the alternatives nested in the accommodation carry no
\* component_id and are not looked at.
Fetchable(comps) ==
    [accommodation |-> IF comps.accommodation.present
                       THEN {comps.accommodation.name} ELSE {},
     transport |-> IF comps.transport # 0 THEN {comps.transport} ELSE {},
     days |-> comps.days]

\* C33: after a successful compose every transport option, every accommodation
\* option and every day of the generated itinerary is held in the registry as
\* a component that get returns for its id.
C33_EveryOptionRegistered ==
    (/\ ev.node = "compose_response"
     /\ ev.branch = "generated")
    => LET held == Fetchable(itinerary_components)
       IN  /\ \A hs \in HotelLists : \A i \in 1..Len(hs) : hs[i] \in held.accommodation
           /\ \A t \in 1..itinerary_components.transport : t \in held.transport
           /\ \A d \in 1..ev.emitted_days : d \in held.days

\* The nightly price of each hotel of the model, as the composer generated it.
NightlyPrice(n) == CASE n = "A" -> 120 [] n = "B" -> 90 [] OTHER -> 150

\* C34: with hotel options and alternatives registered, a request for a cheaper
\* hotel is resolved from the known hotels: the turn is routed to refine and not
\* to a new stays research, and refine re-registers the lowest-priced of the
\* accommodation and its alternatives as the accommodation, selected.
C34_CheaperFromKnownHotels ==
    /\ (/\ ev.node = "route_after_extract"
        /\ ev.route \notin {"ask_more", "discover"}
        /\ lastMsg = "show me cheaper hotels"
        /\ itinerary_components.accommodation.present
        /\ itinerary_components.accommodation.alternatives # <<>>)
       => ev.route = "refine"
    /\ (/\ ev.node = "refine_itinerary"
        /\ lastMsg # NoMsg
        /\ refinement_action(lastMsg) = "change_budget"
        /\ ev.before.present
        /\ ev.before.alternatives # <<>>)
       => LET acc == itinerary_components.accommodation
          IN  /\ acc.selected
              /\ NightlyPrice(acc.name) <= NightlyPrice(ev.before.name)
              /\ \A j \in 1..Len(ev.before.alternatives) :
                    NightlyPrice(acc.name) <= NightlyPrice(ev.before.alternatives[j].name)

\* C36: find returns not-found for a reference that matches no keyword bucket,
\* no populated day and slot and no component name, and the fallback by name
\* never returns a component whose name is empty or missing.
C36_NameFallbackNeedsAName ==
    (/\ ev.op = "find"
     /\ ev.ref \in {"ritz", "zzz"})
    => /\ IsComponent(ev.result) => ev.result.name # ""
       /\ ev.ref = "zzz" => ev.result = NotFound

\* C37: for a reference that names a day and a time slot, find returns the
\* component of matching type stored in that day and slot whenever one exists,
\* in preference to the accommodation, the transport and any match by name.
C37_DaySlotComesFirst ==
    (/\ ev.op = "find"
     /\ ev.ref \in {"day 1 morning", "day 1 morning activity", "day 1 morning drive"}
     /\ IsComponent(ev.before.days[1].morning_slot)
     /\ ev.before.days[1].morning_slot.type = "activity")
    => ev.result = ev.before.days[1].morning_slot

\* C35: a request to swap the activity of day 1's morning slot marks exactly
\* that slot's component as pending_replacement and leaves the accommodation,
\* the transport and every other entry unchanged; when the target cannot be
\* found no component changes and the clarifying question is sent.  (Stated on
\* registries that hold an accommodation and a transport, as after a compose.)
C35_SwapMarksOnlyTheTarget ==
    (/\ ev.op = "swap"
     /\ IsComponent(ev.before.accommodation)
     /\ IsComponent(ev.before.transport))
    => IF /\ ev.msg \in {"swap the day 1 morning activity",
                         "Can you suggest a different morning activity for day 1?"}
          /\ IsComponent(ev.before.days[1].morning_slot)
       THEN /\ itinerary_components =
                  [ev.before EXCEPT !.days[1].morning_slot.v = "pending_replacement"]
            /\ ev.reply = "swap_accepted"
       ELSE /\ itinerary_components = ev.before
            /\ ev.reply = "swap_not_found"

\* C38: resolve_implicit_reference never raises: an utterance for which no rule
\* matches gives not-found, also while a pending decision with an empty option
\* list is active.  (Stated on registries that hold an accommodation and a
\* transport, where a lookup by id cannot raise.)
C38_NoMatchIsNotFound ==
    (/\ ev.op = "resolve"
     /\ IsComponent(itinerary_components.accommodation)
     /\ IsComponent(itinerary_components.transport))
    => /\ ev.result # Raised
       /\ ev.msg = "zzz" => ev.result = NotFound
       /\ (/\ ev.before.pending_decision.present
           /\ ev.before.pending_decision.options = <<>>
           /\ ev.msg # "it") => ev.result = NotFound

\* C39: after every extraction or discovery step each field present in
\* extracted_info holds a meaningful value: never a sentinel string ("", "null",
\* "n/a") nor a string that is blank once trimmed.
C39_FieldsAreMeaningful ==
    ev.node \in {"extract_info", "discover_destination"}
    => \A k \in InfoKeys :
          extracted_info[k] # None => normalize_value(extracted_info[k]) # None

\* C40: a request that failed (a node raised, the answer was 500) leaves the
\* stored conversation as it was before the request: the user message of the
\* failed request is not among the stored messages.
C40_FailedRequestLeavesNoTrace ==
    \A r \in 1..MaxRequests :
        api.req[r].at = "failed" =>
            \A i \in 1..Len(StoredMessages) : StoredMessages[i] # <<"human", r>>

====
